---- MODULE Spec2Model ----
(***************************************************************************)
(* A model of the custodial HD wallet backend: the adapter registry        *)
(* (ChainAdapterFactory), the wallet directory (WalletService), the        *)
(* transfer engine (TransferService), the status poller                    *)
(* (TransactionWatcher) and the sweep engine (FlushService), over the      *)
(* relational store declared by the schema (wallets, addresses,            *)
(* transactions).                                                          *)
(*                                                                         *)
(* Amounts are integers counted in micro-units (1.0 = 1000000): the        *)
(* source computes on IEEE doubles, the model on exact decimals.           *)
(***************************************************************************)
EXTENDS Integers, Sequences, FiniteSets, TLC

\* ------------------------------------------------------------------ bounds

\* in-flight wallet-directory requests (createWallet / generateNewAddress)
MaxCalls == 2
\* largest derivation index the model lets generateNewAddress allocate
MaxIndex == 1
\* createWallet calls in one run (each generates a fresh mnemonic)
MaxWallets == 2
\* rows of table transactions the transfer model lets the API add
MaxTx == 2
\* addresses in one flushToHotWallet request
MaxAddrs == 12
\* ticks of one scheduleAutoFlush schedule
MaxTicks == 2
\* direct generateAddress calls in one run
MaxDerive == 3
MaxGate == 3

\* ------------------------------------------------------------ value spaces

Undefined == "undefined"
None == "none"

EVM == "EVM"
BITCOIN == "BITCOIN"
SOLANA == "SOLANA"
TON == "TON"
ChainType == {EVM, BITCOIN, SOLANA, TON}

Users == {"u1", "u2"}
CallIds == 1..MaxCalls

\* who calls the wallet directory: two users one request at a time, or one user
\* with up to MaxCalls requests in flight
ClientLoads ==
    { [users |-> Users, slots |-> {1}],
      [users |-> {"u1"}, slots |-> CallIds] }

\* a chain entry of WalletConfig.chains: a bare chain name (obj = FALSE) or an
\* object {chain, network?}
ChainCfg(obj, chain, network) == [obj |-> obj, chain |-> chain, network |-> network]
BareEVM == ChainCfg(FALSE, EVM, Undefined)
BareBTC == ChainCfg(FALSE, BITCOIN, Undefined)
\* WalletController.createWallet: chains.map(chain => typeof chain === 'string'
\* ? { chain } : chain), the list it hands to WalletService.createWallet
controllerChains(chains) ==
    [k \in DOMAIN chains |->
        IF chains[k].obj THEN chains[k] ELSE ChainCfg(TRUE, chains[k].chain, Undefined)]

\* the lists WalletService.createWallet is called with: by a caller of the
\* service, and by the controller for the request body ["EVM", "BITCOIN"]
ChainLists ==
    { <<BareEVM, BareBTC>>,
      <<ChainCfg(TRUE, EVM, "ethereum"), ChainCfg(TRUE, EVM, "bsc")>>,
      <<ChainCfg(TRUE, EVM, Undefined)>>,
      controllerChains(<<BareEVM, BareBTC>>) }

\* the (chain, network) arguments of generateNewAddress
AddressRequests ==
    { <<EVM, "ethereum">>, <<EVM, "bsc">>, <<BITCOIN, Undefined>> }

VARIABLES
    adapters,      \* ChainAdapterFactory.adapters: key -> adapter
    wallets,       \* rows of table wallets
    addresses,     \* rows of table addresses
    walletSeq,     \* number of wallet ids handed out (gen_random_uuid)
    mnemonicSeq,   \* number of mnemonics generated (bip39.generateMnemonic)
    calls,         \* in-flight wallet-directory requests
    returned,      \* the wallet-directory request that returned last
    clients,       \* the users calling and the request slots they may fill
    transactions,  \* rows of table transactions
    ledger,        \* the backends: balances, fee signal, seqno, what does not answer
    xfer,          \* the TransferService.transfer call that returned last
    statusCall,    \* the TransferService.getTransactionStatus call that returned last
    watcher,       \* TransactionWatcher: the pending rows its tick has still to check
    flush,         \* the FlushService.flushToHotWallet call
    ops,           \* its per-address operations of the chunk in flight
    console,       \* what WalletService has written to the console
    probe,         \* the last direct call of a registry, encryption or derivation function
    auto,          \* the schedule started by FlushService.scheduleAutoFlush
    guard          \* the transfer middleware: approvals, requests let through

dirVars == <<wallets, addresses, walletSeq, mnemonicSeq, calls, returned, clients, console>>
txVars == <<transactions, ledger, xfer, statusCall, watcher>>
flushVars == <<flush, ops>>
restVars == <<probe, auto, guard>>
vars == <<adapters, dirVars, txVars, flushVars, restVars>>

\* ---------------------------------------------------------------- adapters

EVMAdapter(rpc, chainId) == [kind |-> EVM, rpc |-> rpc, net |-> chainId]
BitcoinAdapter(network) == [kind |-> BITCOIN, rpc |-> "bitcoin", net |-> network]
SolanaAdapter == [kind |-> SOLANA, rpc |-> "solana", net |-> "solana"]
TONAdapter == [kind |-> TON, rpc |-> "ton", net |-> "ton"]

\* const key = network ? `${chain}_${network}` : chain
AdapterKey(chain, network) == <<chain, network>>

\* the registrations made at process start
StartupAdapters ==
    (AdapterKey(EVM, "ethereum") :> EVMAdapter("ethereum", 1))
    @@ (AdapterKey(EVM, "sepolia") :> EVMAdapter("sepolia", 11155111))
    @@ (AdapterKey(EVM, "bsc") :> EVMAdapter("bsc", 56))
    @@ (AdapterKey(EVM, "polygon") :> EVMAdapter("polygon", 137))
    @@ (AdapterKey(BITCOIN, Undefined) :> BitcoinAdapter("mainnet"))
    @@ (AdapterKey(SOLANA, Undefined) :> SolanaAdapter)

\* ChainAdapterFactory.registerAdapter
registerAdapter(reg, key, adapter) ==
    [k \in DOMAIN reg \cup {key} |-> IF k = key THEN adapter ELSE reg[k]]

\* a getAdapter that runs the initialisation without asking adapters.has(key)
getAdapterRegistryNoCache(reg, chain, network) ==
    LET key == AdapterKey(chain, network) IN
    CASE chain = EVM ->
              IF network = "ethereum" THEN registerAdapter(reg, key, EVMAdapter("ethereum", 1))
              ELSE IF network = "bsc" THEN registerAdapter(reg, key, EVMAdapter("bsc", 56))
              ELSE IF network = "polygon" THEN registerAdapter(reg, key, EVMAdapter("polygon", 137))
              ELSE reg
      [] chain = BITCOIN -> registerAdapter(reg, key, BitcoinAdapter("mainnet"))
      [] chain = SOLANA -> registerAdapter(reg, key, SolanaAdapter)
      [] OTHER -> reg

\* the registry after ChainAdapterFactory.getAdapter(chain, network): the lazy
\* initialisation of a missing key
getAdapterRegistry(reg, chain, network) ==
    LET key == AdapterKey(chain, network) IN
    IF key \in DOMAIN reg THEN reg
    ELSE CASE chain = EVM ->
                  IF network = "ethereum" THEN registerAdapter(reg, key, EVMAdapter("ethereum", 1))
                  ELSE IF network = "bsc" THEN registerAdapter(reg, key, EVMAdapter("bsc", 56))
                  ELSE IF network = "polygon" THEN registerAdapter(reg, key, EVMAdapter("polygon", 137))
                  ELSE reg
           [] chain = BITCOIN -> registerAdapter(reg, key, BitcoinAdapter("mainnet"))
           [] chain = SOLANA -> registerAdapter(reg, key, SolanaAdapter)
           [] OTHER -> reg

\* getAdapter throws `Adapter not found for ${key}` exactly when this is FALSE
getAdapterFound(reg, chain, network) ==
    AdapterKey(chain, network) \in DOMAIN getAdapterRegistry(reg, chain, network)

getAdapter(reg, chain, network) ==
    getAdapterRegistry(reg, chain, network)[AdapterKey(chain, network)]

\* ------------------------------------------------------------- derivation

\* adapter.generateAddress(mnemonic, index): the derivation path and the address
\* it yields; the TON adapter's address does not depend on the index
generateAddress(adapter, mnemonic, index) ==
    CASE adapter.kind = EVM ->
            [address |-> <<"0x", mnemonic, index>>,
             publicKey |-> <<"pub", mnemonic, index>>,
             derivationPath |-> <<44, 60, 0, 0, index>>]
      [] adapter.kind = BITCOIN ->
            [address |-> <<"bc1", adapter.net, mnemonic, index>>,
             publicKey |-> <<"pub", mnemonic, index>>,
             derivationPath |-> <<84, 0, 0, 0, index>>]
      [] adapter.kind = SOLANA ->
            [address |-> <<"sol", mnemonic, index>>,
             publicKey |-> <<"sol", mnemonic, index>>,
             derivationPath |-> <<44, 501, index, 0>>]
      [] adapter.kind = TON ->
            [address |-> <<"EQ", mnemonic>>,
             publicKey |-> <<"pub", mnemonic>>,
             derivationPath |-> <<44, 607, 0, 0, index>>]

\* ------------------------------------------------------------- encryption

\* the digits of Buffer.toString('hex'), and the capitals Buffer.from(s, 'hex')
\* reads as well
HexLower == <<"0", "1", "2", "3", "4", "5", "6", "7", "8", "9", "a", "b", "c", "d", "e", "f">>
HexUpper == <<"0", "1", "2", "3", "4", "5", "6", "7", "8", "9", "A", "B", "C", "D", "E", "F">>

\* the value of a hex digit, -1 for any other character
HexValues ==
    [c \in {HexLower[i] : i \in 1..16} \cup {HexUpper[i] : i \in 1..16} |->
        IF \E i \in 1..16 : HexLower[i] = c
        THEN (CHOOSE i \in 1..16 : HexLower[i] = c) - 1
        ELSE (CHOOSE i \in 1..16 : HexUpper[i] = c) - 1]

hexValue(c) == IF c \in DOMAIN HexValues THEN HexValues[c] ELSE -1

\* buffer.toString('hex')
RECURSIVE toHex(_)
toHex(bytes) ==
    IF bytes = <<>> THEN <<>>
    ELSE <<HexLower[(Head(bytes) \div 16) + 1], HexLower[(Head(bytes) % 16) + 1]>>
         \o toHex(Tail(bytes))

\* Buffer.from(s, 'hex'): the bytes of the leading pairs of hex digits, of either
\* case; decoding stops at the first pair that is not hex and drops a last
\* single character
hexPairs(s) ==
    IF \E k \in 1..(Len(s) \div 2) : hexValue(s[2 * k - 1]) < 0 \/ hexValue(s[2 * k]) < 0
    THEN (CHOOSE k \in 1..(Len(s) \div 2) :
             /\ hexValue(s[2 * k - 1]) < 0 \/ hexValue(s[2 * k]) < 0
             /\ \A j \in 1..(k - 1) : hexValue(s[2 * j - 1]) >= 0 /\ hexValue(s[2 * j]) >= 0) - 1
    ELSE Len(s) \div 2

fromHex(s) ==
    [k \in 1..hexPairs(s) |-> 16 * hexValue(s[2 * k - 1]) + hexValue(s[2 * k])]

\* the bytes of a text in utf8 and back; a text is a number below 65536, its
\* bytes the two bytes of the number
utf8(text) == <<text \div 256, text % 256>>

utf8Decode(bytes) ==
    IF Len(bytes) = 2 THEN 256 * bytes[1] + bytes[2]
    ELSE IF Len(bytes) = 1 THEN bytes[1]
    ELSE 0

\* crypto.randomBytes(16), the draw named by a number
IvLength == 16
randomBytes(draw) == [k \in 1..IvLength |-> (16 * draw + k) % 256]

RECURSIVE sumBytes(_, _)
sumBytes(bytes, weight) ==
    IF bytes = <<>> THEN 0
    ELSE (weight * Head(bytes) + sumBytes(Tail(bytes), weight + 2)) % 256

\* the cipher under the process key: a key stream from the IV added to the
\* text bytes, and a 16 byte tag over the IV, the ciphertext and their lengths
\* (a tag that another IV or ciphertext does not share: the chance of a forged
\* 16 byte tag is left out)
keyStream(ivBytes, k) == (sumBytes(ivBytes, 1) + 7 * k + 91) % 256

gcmEncrypt(ivBytes, bytes) ==
    [k \in DOMAIN bytes |-> (bytes[k] + keyStream(ivBytes, k)) % 256]

gcmDecryptShifted(ivBytes, bytes) ==
    [k \in DOMAIN bytes |-> (bytes[k] + 256 - keyStream(ivBytes, k + 1)) % 256]

gcmDecrypt(ivBytes, bytes) ==
    [k \in DOMAIN bytes |-> (bytes[k] + 256 - keyStream(ivBytes, k)) % 256]

TagLength == 16
getAuthTag(ivBytes, bytes) ==
    [k \in 1..TagLength |->
        (sumBytes(ivBytes, 1) + sumBytes(bytes, 33) + 101 * Len(bytes) + 59 * Len(ivBytes)
         + 13 * k) % 256]

\* the tag lengths decipher.setAuthTag accepts when createDecipheriv was given
\* no authTagLength: 4, 8 and 12 to 16 bytes
AuthTagLengths == {4, 8, 12, 13, 14, 15, 16}

\* EncryptionService.encrypt(text), iv the draw of crypto.randomBytes
encrypt(text, iv) ==
    LET ivBytes == randomBytes(iv)
        encrypted == gcmEncrypt(ivBytes, utf8(text))
    IN [encrypted |-> toHex(encrypted), iv |-> toHex(ivBytes),
        tag |-> toHex(getAuthTag(ivBytes, encrypted))]

\* EncryptionService.decrypt(e.encrypted, e.iv, e.tag) returns: createDecipheriv
\* takes the IV, setAuthTag the tag, and final() finds the tag given equal to
\* the tag computed, cut to the length of the tag given
decryptReturns(e) ==
    LET ivBytes == fromHex(e.iv)
        tagBytes == fromHex(e.tag)
        encrypted == fromHex(e.encrypted)
    IN /\ ivBytes # <<>>
       /\ Len(tagBytes) \in AuthTagLengths
       /\ tagBytes = SubSeq(getAuthTag(ivBytes, encrypted), 1, Len(tagBytes))

\* what EncryptionService.decrypt returns when it returns
decryptValue(e) == utf8Decode(gcmDecrypt(fromHex(e.iv), fromHex(e.encrypted)))

\* decrypt worked out once for the seeds the wallet directory stores
StoredSeeds ==
    [e \in { encrypt(text, 1) : text \in 0..(MaxWallets + 2) } |->
        [ok |-> decryptReturns(e), value |-> IF decryptReturns(e) THEN decryptValue(e) ELSE 0]]

decryptOk(e) == IF e \in DOMAIN StoredSeeds THEN StoredSeeds[e].ok ELSE decryptReturns(e)

decrypt(e) == IF e \in DOMAIN StoredSeeds THEN StoredSeeds[e].value ELSE decryptValue(e)

\* ------------------------------------------------------------ persistence

\* a table wallets that carries no uniqueness constraint
walletInsertUnconstrained(rows, userId) == TRUE

\* INSERT INTO wallets: UNIQUE(user_id)
walletInsertAllowed(rows, userId) == \A w \in rows : w.user_id # userId

\* a table addresses that carries no uniqueness constraint
addressInsertUnconstrained(rows, row) == TRUE

\* INSERT INTO addresses: UNIQUE(wallet_id, chain, address_index)
addressInsertAllowed(rows, row) ==
    \A a \in rows :
        ~(a.wallet_id = row.wallet_id /\ a.chain = row.chain
          /\ a.address_index = row.address_index)

\* network || 'mainnet'
storedNetwork(network) == IF network = Undefined THEN "mainnet" ELSE network

\* the row generateAddressForChain inserts; dup tells rows of equal content apart
\* (each row of the table has an id of its own)
AddressRow(walletId, chain, network, generated, index) ==
    [wallet_id |-> walletId, chain |-> chain, network |-> storedNetwork(network),
     address |-> generated.address, derivation_path |-> generated.derivationPath,
     address_index |-> index, dup |-> 0]

insertAddress(rows, row) ==
    rows \cup {[row EXCEPT !.dup = Cardinality({ a \in rows : [a EXCEPT !.dup = 0] = row })]}

Max(S) == CHOOSE x \in S : \A y \in S : y <= x

\* SELECT COALESCE(MAX(address_index), -1) + 1 ... WHERE wallet_id, chain, network
nextIndexOf(rows, walletId, chain, network) ==
    LET idx == { a.address_index : a \in
                   { r \in rows : r.wallet_id = walletId /\ r.chain = chain
                                  /\ r.network = storedNetwork(network) } }
    IN IF idx = {} THEN 0 ELSE Max(idx) + 1

\* ------------------------------------------------- wallet directory calls

NoRow == [wallet_id |-> 0, chain |-> None, network |-> None, address |-> <<>>,
          derivation_path |-> <<>>, address_index |-> -1, dup |-> 0]
NoAdapter == [kind |-> None, rpc |-> None, net |-> None]
NoSeed == [encrypted |-> <<>>, iv |-> <<>>, tag |-> <<>>]

FreeCall ==
    [op |-> None, pc |-> "free", user |-> None, mnemonic |-> 0, seed |-> NoSeed,
     walletId |-> 0, chains |-> <<>>, i |-> 0, chain |-> None, network |-> None,
     nextIndex |-> -1, adapter |-> NoAdapter, row |-> NoRow, result |-> None]

\* what the caller and the store see of a request that has returned
Returned(call, result, row) ==
    [op |-> call.op, user |-> call.user, chains |-> call.chains, walletId |-> call.walletId,
     seed |-> call.seed, chain |-> call.chain, network |-> call.network,
     row |-> row, result |-> result]

NoReturn == Returned(FreeCall, None, NoRow)

Idle(c) == calls[c].pc = "free"

\* typeof chainConfig === 'string' ? chainConfig : chainConfig.chain
cfgChain(cfg) == cfg.chain
\* typeof chainConfig === 'object' ? chainConfig.network : 'ethereum'
cfgNetwork(cfg) == IF cfg.obj THEN cfg.network ELSE "ethereum"

\* a line written by console.log: its text and the plaintext mnemonic among its
\* arguments (0: none)
LogLine(text, mnemonic) == [text |-> text, mnemonic |-> mnemonic]

\* console.log(...) of each of the lines
log(lines) == console' = console \cup lines

\* console.log("mnemonic generated", mnemonic, config); console.log("encrypted, iv, tag")
LogGenerated(mnemonic) ==
    {LogLine("mnemonic generated", mnemonic), LogLine("encrypted, iv, tag", 0)}
\* console.log("chain or network: ", chain, network); console.log("before adapter", ...)
LogBeforeAdapter == {LogLine("chain or network", 0), LogLine("before adapter", 0)}
\* console.log("adapter: ", adapter); console.log("generated address: ", generated, ...)
LogDerived == {LogLine("adapter", 0), LogLine("generated address", 0)}
\* console.log("addresses generated", addresses)
LogAddresses == {LogLine("addresses generated", 0)}

\* the request in slot c returns `result` to its caller
Return(c, call, result, row) ==
    /\ calls' = [calls EXCEPT ![c] = FreeCall]
    /\ returned' = Returned(call, result, row)
    /\ UNCHANGED <<clients, txVars, flushVars, restVars>>

\* the request in slot c goes on as `call`
Continue(c, call) ==
    /\ calls' = [calls EXCEPT ![c] = call]
    /\ UNCHANGED <<returned, clients, txVars, flushVars, restVars>>

\* createWallet up to the answer to its first query: a fresh mnemonic is
\* generated and encrypted, then SELECT id FROM wallets WHERE user_id = $1
createWalletSelect(c, user, chains) ==
    LET mnemonic == mnemonicSeq + 1
        call == [FreeCall EXCEPT !.op = "createWallet", !.user = user, !.chains = chains,
                                 !.mnemonic = mnemonic, !.seed = encrypt(mnemonic, 1)]
        existing == { w \in wallets : w.user_id = user }
        found == [call EXCEPT !.walletId = (CHOOSE w \in existing : TRUE).id]
    IN
    /\ Idle(c)
    /\ mnemonicSeq < MaxWallets
    /\ mnemonicSeq' = mnemonic
    /\ IF existing = {}
       THEN /\ Continue(c, [call EXCEPT !.pc = "insert"])
            /\ log(LogGenerated(mnemonic))
       ELSE IF Len(chains) = 0
       THEN /\ Return(c, found, "ok", NoRow)
            /\ log(LogGenerated(mnemonic) \cup LogAddresses)
       ELSE /\ Continue(c, [found EXCEPT !.pc = "addresses", !.i = 1])
            /\ log(LogGenerated(mnemonic))
    /\ UNCHANGED <<adapters, wallets, addresses, walletSeq>>

\* INSERT INTO wallets ... RETURNING id
createWalletInsert(c) ==
    LET call == calls[c]
        id == walletSeq + 1
    IN
    /\ call.op = "createWallet" /\ call.pc = "insert"
    /\ IF walletInsertAllowed(wallets, call.user)
       THEN /\ wallets' = wallets \cup {[id |-> id, user_id |-> call.user, seed |-> call.seed]}
            /\ walletSeq' = id
            /\ IF Len(call.chains) = 0
               THEN /\ Return(c, [call EXCEPT !.walletId = id], "ok", NoRow)
                    /\ log(LogAddresses)
               ELSE /\ Continue(c, [call EXCEPT !.walletId = id, !.pc = "addresses", !.i = 1])
                    /\ UNCHANGED console
       ELSE /\ Return(c, call, "UniqueViolation", NoRow)
            /\ UNCHANGED <<wallets, walletSeq, console>>
    /\ UNCHANGED <<adapters, addresses, mnemonicSeq>>

\* one turn of the loop over config.chains: generateAddressForChain(walletId,
\* mnemonic, chain, 0, network) with the mnemonic generated by this call
createWalletAddress(c) ==
    LET call == calls[c]
        cfg == call.chains[call.i]
        chain == cfgChain(cfg)
        network == cfgNetwork(cfg)
        at == [call EXCEPT !.chain = chain, !.network = network]
        row == AddressRow(call.walletId, chain, network,
                          generateAddress(getAdapter(adapters, chain, network), call.mnemonic, 0), 0)
    IN
    /\ call.op = "createWallet" /\ call.pc = "addresses"
    /\ adapters' = getAdapterRegistry(adapters, chain, network)
    /\ IF ~getAdapterFound(adapters, chain, network)
       THEN /\ Return(c, at, "AdapterNotFound", NoRow)
            /\ log(LogBeforeAdapter)
            /\ UNCHANGED addresses
       ELSE IF ~addressInsertAllowed(addresses, row)
       THEN /\ Return(c, at, "UniqueViolation", row)
            /\ log(LogBeforeAdapter \cup LogDerived)
            /\ UNCHANGED addresses
       ELSE /\ addresses' = insertAddress(addresses, row)
            /\ IF call.i = Len(call.chains)
               THEN /\ Return(c, at, "ok", row)
                    /\ log(LogBeforeAdapter \cup LogDerived \cup LogAddresses)
               ELSE /\ Continue(c, [call EXCEPT !.i = call.i + 1])
                    /\ log(LogBeforeAdapter \cup LogDerived)
    /\ UNCHANGED <<wallets, walletSeq, mnemonicSeq>>

\* generateNewAddress up to generateAddressForChain's first await:
\* getWalletByUserId, the max-index query, the decryption of the stored seed and
\* ChainAdapterFactory.getAdapter
generateNewAddressIndex(c, user, chain, network) ==
    LET found == { w \in wallets : w.user_id = user }
        wallet == CHOOSE w \in found : TRUE
        call == [FreeCall EXCEPT !.op = "generateNewAddress", !.user = user,
                                 !.chain = chain, !.network = network]
        nextIndex == nextIndexOf(addresses, wallet.id, chain, network)
        read == [call EXCEPT !.walletId = wallet.id, !.seed = wallet.seed,
                             !.nextIndex = nextIndex]
    IN
    /\ Idle(c)
    /\ IF found = {}
       THEN /\ Return(c, call, "WalletNotFound", NoRow)
            /\ UNCHANGED <<adapters, console>>
       ELSE /\ nextIndex <= MaxIndex
            /\ IF ~decryptOk(wallet.seed)
               THEN /\ Return(c, read, "DecryptError", NoRow)
                    /\ UNCHANGED <<adapters, console>>
               ELSE /\ adapters' = getAdapterRegistry(adapters, chain, network)
                    /\ log({LogLine("before adapter", 0)})
                    /\ IF ~getAdapterFound(adapters, chain, network)
                       THEN Return(c, read, "AdapterNotFound", NoRow)
                       ELSE Continue(c, [read EXCEPT !.pc = "insert",
                                                     !.mnemonic = decrypt(wallet.seed),
                                                     !.adapter = getAdapter(adapters, chain,
                                                                            network)])
    /\ UNCHANGED <<wallets, addresses, walletSeq, mnemonicSeq>>

\* adapter.generateAddress(mnemonic, nextIndex) and INSERT INTO addresses
generateNewAddressInsert(c) ==
    LET call == calls[c]
        row == AddressRow(call.walletId, call.chain, call.network,
                          generateAddress(call.adapter, call.mnemonic, call.nextIndex),
                          call.nextIndex)
    IN
    /\ call.op = "generateNewAddress" /\ call.pc = "insert"
    /\ log(LogDerived)
    /\ IF addressInsertAllowed(addresses, row)
       THEN /\ addresses' = insertAddress(addresses, row)
            /\ Return(c, call, "ok", row)
       ELSE /\ Return(c, call, "UniqueViolation", row)
            /\ UNCHANGED addresses
    /\ UNCHANGED <<adapters, wallets, walletSeq, mnemonicSeq>>

createWallet ==
    \/ \E c \in clients.slots, user \in clients.users, chains \in ChainLists :
          createWalletSelect(c, user, chains)
    \/ \E c \in CallIds : createWalletInsert(c)
    \/ \E c \in CallIds : createWalletAddress(c)

generateNewAddress ==
    \/ \E c \in clients.slots, user \in clients.users, r \in AddressRequests :
          generateNewAddressIndex(c, user, r[1], r[2])
    \/ \E c \in CallIds : generateNewAddressInsert(c)

\* ------------------------------------------------- the custody directory

\* The directory the transfer, status and sweep models start from: user u1 with
\* two EVM addresses and a TON address, user u2 with a Solana and a TON address,
\* as createWallet and generateNewAddress leave them once a TON adapter has been
\* registered under TON_mainnet.
CustodyAdapters == registerAdapter(StartupAdapters, AdapterKey(TON, "mainnet"), TONAdapter)

CustodyWallets ==
    { [id |-> 1, user_id |-> "u1", seed |-> encrypt(1, 1)],
      [id |-> 2, user_id |-> "u2", seed |-> encrypt(2, 1)] }

E0 == generateAddress(EVMAdapter("ethereum", 1), 1, 0).address
E1 == generateAddress(EVMAdapter("ethereum", 1), 1, 1).address
S0 == generateAddress(SolanaAdapter, 2, 0).address
T1 == generateAddress(TONAdapter, 1, 0).address
T2 == generateAddress(TONAdapter, 2, 0).address
\* an address the directory does not hold
Stranger == <<"0x", 0, 0>>
HotWallet == <<"0x", "hot">>

CustodyAddresses ==
    { AddressRow(1, EVM, "ethereum", generateAddress(EVMAdapter("ethereum", 1), 1, 0), 0),
      AddressRow(1, EVM, "ethereum", generateAddress(EVMAdapter("ethereum", 1), 1, 1), 1),
      AddressRow(1, TON, "mainnet", generateAddress(TONAdapter, 1, 0), 0),
      AddressRow(2, SOLANA, "ethereum", generateAddress(SolanaAdapter, 2, 0), 0),
      AddressRow(2, TON, "mainnet", generateAddress(TONAdapter, 2, 0), 0) }

ChainAddresses == {E0, E1, S0, T1, T2, Stranger}

\* ------------------------------------------------------ adapters: balances

\* adapter.getBalance(address, token) throws: the backend cannot be reached, or
\* the Solana adapter is asked for a token
getBalanceThrows(adapter, address, token) ==
    \/ address \in ledger.down
    \/ adapter.kind = SOLANA /\ token # Undefined

\* the balance adapter.getBalance(address, token) returns, in micro-units: only
\* the EVM adapter reads a token balance, the Bitcoin and TON adapters take no
\* token parameter
getBalance(adapter, address, token) ==
    IF adapter.kind = EVM /\ token # Undefined
    THEN ledger.token[address]
    ELSE ledger.native[address]

\* the identifier adapter.transfer returns on a successful broadcast: a
\* transaction hash, or the TON adapter's `seqno_${seqno}`
transferIdentifier(adapter, address) ==
    IF adapter.kind = TON
    THEN <<"seqno", ledger.seqno[address]>>
    ELSE <<"tx", address,
           Cardinality({ t \in transactions : t.from_address = address })>>

\* what a backend can tell about a transaction: it cannot be reached, it has
\* not seen the transaction, the transaction waits unmined, is in a block that
\* is not final yet, is final, or was reverted or errored
ChainReports == {"unreachable", "unseen", "mempool", "included", "finalized", "reverted"}

\* adapter.getTransactionStatus(txHash) given the backend's report: the EVM
\* adapter reads the receipt and its status, the Bitcoin adapter the confirmed
\* flag with `catch { return 'failed' }` around the request, the Solana adapter
\* err and confirmationStatus, the TON adapter nothing
adapterTransactionStatus(adapter, report) ==
    CASE adapter.kind = EVM ->
            IF report = "unreachable" THEN "RpcError"
            ELSE IF report \in {"unseen", "mempool"} THEN "pending"
            ELSE IF report = "reverted" THEN "failed"
            ELSE "confirmed"
      [] adapter.kind = BITCOIN ->
            IF report \in {"unreachable", "unseen", "reverted"} THEN "failed"
            ELSE IF report = "mempool" THEN "pending"
            ELSE "confirmed"
      [] adapter.kind = SOLANA ->
            IF report = "unreachable" THEN "RpcError"
            ELSE IF report = "unseen" THEN "pending"
            ELSE IF report = "reverted" THEN "failed"
            ELSE IF report = "finalized" THEN "confirmed"
            ELSE "pending"
      [] adapter.kind = TON -> "confirmed"

\* what adapter.getTransactionStatus can answer: a status, or a thrown error
getTransactionStatusAnswers(adapter) ==
    CASE adapter.kind = EVM -> {"pending", "confirmed", "failed", "RpcError"}
      [] adapter.kind = BITCOIN -> {"pending", "confirmed", "failed"}
      [] adapter.kind = SOLANA -> {"pending", "confirmed", "failed", "RpcError"}
      [] adapter.kind = TON -> {"confirmed"}

\* --------------------------------------------------------- TransferService

TransferRequest(from, to, amount, chainType, token) ==
    [fromAddress |-> from, toAddress |-> to, amount |-> amount, chain |-> chainType,
     token |-> token]

NoRequest == TransferRequest(<<>>, <<>>, 0, None, Undefined)

NoTx == {}

\* INSERT INTO transactions: tx_hash UNIQUE
transactionInsertAllowed(rows, txHash) == \A t \in rows : t.tx_hash # txHash

\* a lookup WHERE a.address = $1 alone
getAddressWithWalletAnyChain(address, chainType) ==
    { r \in addresses \X wallets : r[1].wallet_id = r[2].id /\ r[1].address = address }

\* getAddressWithWallet: addresses JOIN wallets WHERE a.address = $1 AND a.chain = $2
getAddressWithWallet(address, chainType) ==
    { r \in addresses \X wallets :
        r[1].wallet_id = r[2].id /\ r[1].address = address /\ r[1].chain = chainType }

\* if (parseFloat(balance) < parseFloat(request.amount)) throw
insufficientFunds(balance, amount) == balance < amount

\* the row transfer inserts after a broadcast
TransactionRow(request, info, txHash) ==
    [user_id |-> info[2].user_id, from_address |-> request.fromAddress,
     to_address |-> request.toAddress, chain |-> request.chain,
     network |-> info[1].network, token |-> request.token, amount |-> request.amount,
     tx_hash |-> txHash, status |-> "pending", confirmed_at |-> FALSE]

\* the rows written when the INSERT does not wait for the broadcast's outcome
transferRecordEager(request, info, txHash, out) ==
    {TransactionRow(request, info, txHash)}

\* the rows a transfer call writes, given the outcome of its broadcast: the
\* INSERT follows `await adapter.transfer(...)`, which throws on failure
transferRecord(request, info, txHash, out) ==
    IF out = "ok" THEN {TransactionRow(request, info, txHash)} ELSE NoTx

\* what a transfer call returned or threw, whether it asked for the balance and
\* decrypted the seed, the broadcasts it made, and the rows it wrote
Outcome(result, queried, decrypted, broadcasts, sent, txHash, rows) ==
    [result |-> result, queried |-> queried, decrypted |-> decrypted, broadcasts |-> broadcasts,
     sent |-> sent, hash |-> txHash, rows |-> rows]

\* TransferService.transfer(request), `out` being what the backend answers to
\* the broadcast: what the call returns or throws and what it has done by then
transferRun(request, out) ==
    LET joined == getAddressWithWallet(request.fromAddress, request.chain)
        info == CHOOSE r \in joined : TRUE
        network == info[1].network
        adapter == getAdapter(adapters, request.chain, network)
        txHash == transferIdentifier(adapter, request.fromAddress)
        rows == transferRecord(request, info, txHash, out)
    IN
    IF joined = {}
    THEN Outcome("AddressNotFound", FALSE, FALSE, 0, FALSE, None, NoTx)
    ELSE IF ~getAdapterFound(adapters, request.chain, network)
    THEN Outcome("AdapterNotFound", FALSE, FALSE, 0, FALSE, None, NoTx)
    ELSE IF getBalanceThrows(adapter, request.fromAddress, Undefined)
    THEN Outcome("BalanceQueryError", TRUE, FALSE, 0, FALSE, None, NoTx)
    ELSE IF insufficientFunds(getBalance(adapter, request.fromAddress, Undefined),
                              request.amount)
    THEN Outcome("InsufficientFunds", TRUE, FALSE, 0, FALSE, None, NoTx)
    ELSE IF ~decryptOk(info[2].seed)
    THEN Outcome("IntegrityError", TRUE, FALSE, 0, FALSE, None, NoTx)
    ELSE IF rows = NoTx
    THEN Outcome(out, TRUE, TRUE, 1, FALSE, None, NoTx)
    ELSE IF \E t \in rows : ~transactionInsertAllowed(transactions, t.tx_hash)
    THEN Outcome("UniqueViolation", TRUE, TRUE, 1, out = "ok", txHash, NoTx)
    ELSE Outcome("ok", TRUE, TRUE, 1, out = "ok", txHash, rows)

\* the registry after the call: getAdapter runs once the address is resolved
transferAdapters(request) ==
    LET joined == getAddressWithWallet(request.fromAddress, request.chain)
    IN IF joined = {} THEN adapters
       ELSE getAdapterRegistry(adapters, request.chain, (CHOOSE r \in joined : TRUE)[1].network)

\* the chains after the call: a TON wallet's seqno moves on with each message sent
transferChain(request, outcome) ==
    IF outcome.sent /\ request.chain = TON
    THEN [ledger EXCEPT !.seqno[request.fromAddress] = @ + 1]
    ELSE ledger

\* the effect of one TransferService.transfer call on the store and the chains
transferEffect(request, outcome) ==
    /\ adapters' = transferAdapters(request)
    /\ transactions' = transactions \cup outcome.rows
    /\ ledger' = transferChain(request, outcome)

\* ------------------------------------------------------- transfer requests

TransferRequests ==
    { TransferRequest(E0, HotWallet, 1000, EVM, Undefined),
      TransferRequest(E0, HotWallet, 1000, EVM, "token"),
      TransferRequest(S0, HotWallet, 1000, SOLANA, Undefined),
      TransferRequest(T1, HotWallet, 1000, TON, Undefined),
      TransferRequest(T2, HotWallet, 1000, TON, Undefined),
      TransferRequest(Stranger, HotWallet, 1000, EVM, Undefined),
      TransferRequest(E0, HotWallet, 1000, SOLANA, Undefined) }

BroadcastAnswers == {"ok", "BroadcastError", "SigningError"}

\* one call of TransferService.transfer by the API
transfer(request, out) ==
    LET outcome == transferRun(request, out) IN
    /\ Cardinality(transactions) < MaxTx
    /\ transferEffect(request, outcome)
    /\ xfer' = [request |-> request, out |-> out, outcome |-> outcome]
    /\ UNCHANGED <<dirVars, restVars, statusCall, watcher, flushVars>>

\* getTransactionStatus with an UPDATE that stamps the confirmation time whatever
\* the new status is
getTransactionStatusRunStamped(txHash, answer) ==
    LET found == { t \in transactions : t.tx_hash = txHash }
        tx == CHOOSE t \in found : TRUE
    IN
    IF found = {}
    THEN [result |-> "TransactionNotFound", returns |-> <<>>, rows |-> transactions]
    ELSE IF ~getAdapterFound(adapters, tx.chain, Undefined)
    THEN [result |-> "AdapterNotFound", returns |-> <<>>, rows |-> transactions]
    ELSE IF answer \notin {"pending", "confirmed", "failed"}
    THEN [result |-> answer, returns |-> <<>>, rows |-> transactions]
    ELSE [result |-> answer,
          returns |-> <<[tx EXCEPT !.status = answer]>>,
          rows |-> IF answer # tx.status
                   THEN (transactions \ {tx})
                        \cup {[tx EXCEPT !.status = answer, !.confirmed_at = TRUE]}
                   ELSE transactions]

\* TransferService.getTransactionStatus(txHash, chain), `answer` being what the
\* adapter's status query gives: the row it leaves, or the error it throws
getTransactionStatusRun(txHash, answer) ==
    LET found == { t \in transactions : t.tx_hash = txHash }
        tx == CHOOSE t \in found : TRUE
    IN
    IF found = {}
    THEN [result |-> "TransactionNotFound", returns |-> <<>>, rows |-> transactions]
    ELSE IF ~getAdapterFound(adapters, tx.chain, Undefined)
    THEN [result |-> "AdapterNotFound", returns |-> <<>>, rows |-> transactions]
    ELSE IF answer \notin {"pending", "confirmed", "failed"}
    THEN [result |-> answer, returns |-> <<>>, rows |-> transactions]
    ELSE [result |-> answer,
          \* return { ...tx, status }
          returns |-> <<[tx EXCEPT !.status = answer]>>,
          rows |-> IF answer # tx.status
                   THEN (transactions \ {tx})
                        \cup {[tx EXCEPT !.status = answer,
                                         !.confirmed_at = (answer = "confirmed")]}
                   ELSE transactions]

\* the answers open to the adapter the call reaches
statusAnswers(txHash) ==
    LET found == { t \in transactions : t.tx_hash = txHash }
        tx == CHOOSE t \in found : TRUE
    IN IF found = {} \/ ~getAdapterFound(adapters, tx.chain, Undefined)
       THEN {"pending"}
       ELSE getTransactionStatusAnswers(getAdapter(adapters, tx.chain, Undefined))

statusAdapters(txHash) ==
    LET found == { t \in transactions : t.tx_hash = txHash }
    IN IF found = {} THEN adapters
       ELSE getAdapterRegistry(adapters, (CHOOSE t \in found : TRUE).chain, Undefined)

KnownHashes == { t.tx_hash : t \in transactions } \cup {<<"tx", Stranger, 0>>}

\* one call of getTransactionStatus by the API
getTransactionStatus(txHash, answer) ==
    LET run == getTransactionStatusRun(txHash, answer) IN
    /\ transactions' = run.rows
    /\ adapters' = statusAdapters(txHash)
    /\ statusCall' = [hash |-> txHash, result |-> run.result, returns |-> run.returns,
                      by |-> "api"]
    /\ UNCHANGED <<dirVars, restVars, ledger, xfer, watcher, flushVars>>

\* ------------------------------------------------------ TransactionWatcher

\* every sequence that lists the members of S once
RECURSIVE Orders(_)
Orders(S) ==
    IF S = {} THEN {<<>>}
    ELSE UNION { { <<x>> \o q : q \in Orders(S \ {x}) } : x \in S }

\* a tick of the interval: SELECT tx_hash, chain FROM transactions WHERE status = 'pending'
watcherTick(queue) ==
    /\ watcher.queue = <<>>
    /\ queue # <<>>
    /\ watcher' = [queue |-> queue]
    /\ UNCHANGED <<adapters, dirVars, restVars, transactions, ledger, xfer, statusCall, flushVars>>

\* one turn of the tick's loop: await getTransactionStatus(row.tx_hash, row.chain);
\* an error leaves the loop for the catch around it
watcherCheck(answer) ==
    LET txHash == Head(watcher.queue)
        run == getTransactionStatusRun(txHash, answer)
    IN
    /\ watcher.queue # <<>>
    /\ transactions' = run.rows
    /\ adapters' = statusAdapters(txHash)
    /\ statusCall' = [hash |-> txHash, result |-> run.result, returns |-> run.returns,
                      by |-> "watcher"]
    /\ watcher' = [queue |-> IF run.result \in {"pending", "confirmed", "failed"}
                             THEN Tail(watcher.queue) ELSE <<>>]
    /\ UNCHANGED <<dirVars, restVars, ledger, xfer, flushVars>>

TransferService ==
    \/ \E request \in TransferRequests, out \in BroadcastAnswers : transfer(request, out)
    \/ \E txHash \in KnownHashes : \E answer \in statusAnswers(txHash) :
          getTransactionStatus(txHash, answer)

TransactionWatcher ==
    \/ \E queue \in Orders({ t.tx_hash : t \in { r \in transactions : r.status = "pending" } }) :
          watcherTick(queue)
    \/ /\ watcher.queue # <<>>
       /\ \E answer \in statusAnswers(Head(watcher.queue)) : watcherCheck(answer)

\* ------------------------------------------------- the transfer middleware

\* const APPROVAL_THRESHOLD = 100, in micro-units
APPROVAL_THRESHOLD == 100000000
\* DAILY_LIMITS = { user: 10, admin: 1000 }, in micro-units
DailyLimitUser == 10000000
DailyLimitAdmin == 1000000000

\* DAILY_LIMITS[req.user.role] || DAILY_LIMITS.user
dailyLimit(role) == IF role = "admin" THEN DailyLimitAdmin ELSE DailyLimitUser

\* a row of table transfer_approvals; recent: created_at is within the last hour
ApprovalRow(id, body, status, recent) ==
    [id |-> id, from_address |-> body.fromAddress, to_address |-> body.toAddress,
     amount |-> body.amount, chain |-> body.chain, token |-> body.token,
     status |-> status, recent |-> recent]

\* a SELECT that takes a record of whatever status for an approval
approvalResultAnyStatus(approvals, body) ==
    { a \in approvals :
        /\ a.from_address = body.fromAddress /\ a.to_address = body.toAddress
        /\ a.amount = body.amount
        /\ a.recent }

\* SELECT * FROM transfer_approvals WHERE from_address = $1 AND to_address = $2
\* AND amount = $3 AND status = 'approved' AND created_at >= NOW() - INTERVAL '1 hour'
approvalResult(approvals, body) ==
    { a \in approvals :
        /\ a.from_address = body.fromAddress /\ a.to_address = body.toAddress
        /\ a.amount = body.amount
        /\ a.status = "approved"
        /\ a.recent }

\* what the middleware did with the request: next(), a response, or next(error)
GateOutcome(mw, body, outcome) == [mw |-> mw, request |-> body, outcome |-> outcome]

\* checkApprovalRequired(req, res, next) for a request of guard.role, the store
\* answering or not
checkApprovalRequired(body, dbOk) ==
    LET found == approvalResult(guard.approvals, body)
        id == Cardinality(guard.approvals) + 1
        met == [guard EXCEPT !.n = @ + 1]
    IN
    /\ guard.n < MaxGate
    /\ guard' =
         IF body.amount > APPROVAL_THRESHOLD
         THEN IF ~dbOk
              THEN [met EXCEPT !.last = GateOutcome("approval", body, "error")]
              ELSE IF found = {} /\ guard.role # "admin"
              THEN [met EXCEPT !.approvals = @ \cup {ApprovalRow(id, body, "pending", TRUE)},
                               !.last = GateOutcome("approval", body, "pending_approval")]
              ELSE [met EXCEPT !.last = GateOutcome("approval", body, "next")]
         ELSE [met EXCEPT !.last = GateOutcome("approval", body, "next")]
    /\ UNCHANGED <<adapters, dirVars, txVars, flushVars, probe, auto>>

\* AdminController.approveTransfer: UPDATE ... SET status = 'approved'
\* WHERE id = $2 AND status = 'pending'
approveTransfer(id) ==
    /\ \E a \in guard.approvals : a.id = id /\ a.status = "pending"
    /\ guard' = [guard EXCEPT !.approvals =
                    { IF a.id = id THEN [a EXCEPT !.status = "approved"] ELSE a : a \in @ }]
    /\ UNCHANGED <<adapters, dirVars, txVars, flushVars, probe, auto>>

\* AdminController.rejectTransfer: UPDATE ... SET status = 'rejected'
\* WHERE id = $2 AND status = 'pending'
rejectTransfer(id) ==
    /\ \E a \in guard.approvals : a.id = id /\ a.status = "pending"
    /\ guard' = [guard EXCEPT !.approvals =
                    { IF a.id = id THEN [a EXCEPT !.status = "rejected"] ELSE a : a \in @ }]
    /\ UNCHANGED <<adapters, dirVars, txVars, flushVars, probe, auto>>

\* an hour goes by: no record on file is within NOW() - INTERVAL '1 hour'
hourPasses ==
    /\ \E a \in guard.approvals : a.recent
    /\ guard' = [guard EXCEPT !.approvals = { [a EXCEPT !.recent = FALSE] : a \in @ }]
    /\ UNCHANGED <<adapters, dirVars, txVars, flushVars, probe, auto>>

RECURSIVE sumAmounts(_)
sumAmounts(rows) ==
    IF rows = {} THEN 0
    ELSE LET t == CHOOSE r \in rows : TRUE IN t.amount + sumAmounts(rows \ {t})

\* SELECT COALESCE(SUM(amount), 0) FROM transactions WHERE from_address = $1
\* AND created_at >= CURRENT_DATE AND status != 'failed'
dailyTotal(fromAddress) ==
    sumAmounts({ t \in transactions : t.from_address = fromAddress /\ t.status # "failed" })

\* checkDailyLimit(req, res, next): a request let through waits in guard.passed
\* for the controller to call TransferService.transfer
checkDailyLimit(body, dbOk) ==
    LET met == [guard EXCEPT !.n = @ + 1] IN
    /\ guard.n < MaxGate
    /\ Len(guard.passed) < MaxCalls
    /\ Cardinality(transactions) < MaxTx
    /\ guard' =
         IF guard.role = None
         THEN [met EXCEPT !.last = GateOutcome("dailyLimit", body, "401")]
         ELSE IF ~dbOk
         THEN [met EXCEPT !.last = GateOutcome("dailyLimit", body, "error")]
         ELSE IF dailyTotal(body.fromAddress) + body.amount > dailyLimit(guard.role)
         THEN [met EXCEPT !.last = GateOutcome("dailyLimit", body, "429")]
         ELSE [met EXCEPT !.passed = Append(@, body),
                          !.last = GateOutcome("dailyLimit", body, "next")]
    /\ UNCHANGED <<adapters, dirVars, txVars, flushVars, probe, auto>>

\* the controller's TransferService.transfer call of a request let through
limitedTransfer(k, out) ==
    LET request == guard.passed[k]
        outcome == transferRun(request, out)
    IN
    /\ k \in DOMAIN guard.passed
    /\ Cardinality(transactions) < MaxTx
    /\ transferEffect(request, outcome)
    /\ xfer' = [request |-> request, out |-> out, outcome |-> outcome]
    /\ guard' = [guard EXCEPT !.passed = SubSeq(@, 1, k - 1) \o SubSeq(@, k + 1, Len(@))]
    /\ UNCHANGED <<dirVars, statusCall, watcher, flushVars, probe, auto>>

\* the requests that reach the middleware
GateRequests ==
    { TransferRequest(E0, to, amount, EVM, Undefined) :
         to \in {HotWallet, Stranger}, amount \in {APPROVAL_THRESHOLD, 150000000} }

LimitRequests ==
    { TransferRequest(E0, HotWallet, amount, EVM, Undefined) :
         amount \in {4000000, 6000000, 600000000} }

RiskGuard ==
    \/ \E body \in GateRequests, dbOk \in BOOLEAN : checkApprovalRequired(body, dbOk)
    \/ \E id \in 1..MaxGate : approveTransfer(id)
    \/ \E id \in 1..MaxGate : rejectTransfer(id)
    \/ hourPasses
    \/ \E body \in LimitRequests, dbOk \in BOOLEAN : checkDailyLimit(body, dbOk)
    \/ \E k \in 1..MaxCalls, out \in {"ok", "BroadcastError"} : limitedTransfer(k, out)

\* ------------------------------------------------------------ FlushService

\* private readonly CONCURRENCY_LIMIT = 5
CONCURRENCY_LIMIT == 5
\* gasUnits = isToken ? 65000 : 21000
TokenGasUnits == 65000
NativeGasUnits == 21000
\* the fee returned when the lookup throws: 0.001, in micro-units
FallbackGasFee == 1000

Min(a, b) == IF a <= b THEN a ELSE b

FlushRequest(userAddresses, hotWalletAddress, chainType, token) ==
    [userAddresses |-> userAddresses, hotWalletAddress |-> hotWalletAddress,
     chain |-> chainType, token |-> token]

\* one processSingleAddressFlush call: the entry it works on, where it stands,
\* what it has read and computed, and the value its promise settles with
FlushOp(pos, address) ==
    [pos |-> pos, address |-> address, pc |-> "evaluate", balance |-> -1, gasFee |-> -1,
     amount |-> -1, attempted |-> FALSE, error |-> None, hash |-> None]

\* the promise rejects: the error leaves processSingleAddressFlush
thrown(op, error) == [op EXCEPT !.pc = "Thrown", !.error = error]

\* a catch that leaves the entry where the error found it, so that a transfer
\* that threw is submitted again
caughtRetried(op, error) ==
    IF op.pc = "transfer" THEN [op EXCEPT !.error = error]
    ELSE [op EXCEPT !.pc = "Failed", !.error = error]

\* catch (error) { logger.error(...); return null }
caught(op, error) == [op EXCEPT !.pc = "Failed", !.error = error]

\* request.userAddresses.slice(i, i + CONCURRENCY_LIMIT), with every address
chunkWhole(userAddresses, i) ==
    [k \in 1..(Len(userAddresses) - i) |-> FlushOp(i + k, userAddresses[i + k])]

\* chunk.map(address => processSingleAddressFlush(address, request)) over
\* request.userAddresses.slice(i, i + CONCURRENCY_LIMIT)
chunkOf(userAddresses, i) ==
    [k \in 1..(Min(i + CONCURRENCY_LIMIT, Len(userAddresses)) - i) |->
        FlushOp(i + k, userAddresses[i + k])]

\* adapter.getGasPrice() throws: no lookup answers (none of the adapters of the
\* registry defines getGasPrice)
getGasPriceThrows == ledger.gasPrice = <<>>

\* getDynamicGasFee with the native budget for every asset
getDynamicGasFeeOneBudget(isToken) ==
    IF getGasPriceThrows THEN FallbackGasFee
    ELSE (ledger.gasPrice[1] * NativeGasUnits) \div 1000

\* getDynamicGasFee without the fallback value of its catch
getDynamicGasFeeNoFallback(isToken) ==
    IF getGasPriceThrows
    THEN 0
    ELSE (ledger.gasPrice[1] * (IF isToken # Undefined THEN TokenGasUnits ELSE NativeGasUnits))
         \div 1000

\* getDynamicGasFee: Number(feeData) * gasUnits / 1e18 of a price in wei, here
\* of a price in gwei and in micro-units; the fallback when the lookup throws
getDynamicGasFee(isToken) ==
    IF getGasPriceThrows
    THEN FallbackGasFee
    ELSE (ledger.gasPrice[1] * (IF isToken # Undefined THEN TokenGasUnits ELSE NativeGasUnits))
         \div 1000

\* if (balance <= minThreshold) return null, minThreshold being gasFee * 2
belowThresholdStrict(balance, gasFee) == balance < gasFee * 2

belowThreshold(balance, gasFee) == balance <= gasFee * 2

\* amountToFlush, less the fee whatever is swept
amountAfterFee(balance, gasFee, token) == balance - gasFee

\* amountToFlush with the fee added where it is to be taken off
amountPlusFee(balance, gasFee, token) ==
    IF token = Undefined THEN balance + gasFee ELSE balance

\* let amountToFlush = balance; if (!request.token) amountToFlush = balance - gasFee
amountToFlush(balance, gasFee, token) ==
    IF token = Undefined THEN balance - gasFee ELSE balance

\* SELECT network, chain FROM addresses WHERE LOWER(address) = LOWER($1)
addressMetadata(address) == { a \in addresses : a.address = address }

\* the query of processSingleAddressFlush throws: the store does not answer
queryThrows(address) == address \in ledger.queryDown

\* processSingleAddressFlush up to the call of transferService.transfer
evaluateRun(op, request) ==
    LET rows == addressMetadata(op.address)
        row == CHOOSE a \in rows : TRUE
        adapter == getAdapter(adapters, row.chain, row.network)
        balance == getBalance(adapter, op.address, request.token)
        gasFee == getDynamicGasFee(request.token)
        read == [op EXCEPT !.balance = balance, !.gasFee = gasFee]
    IN
    IF queryThrows(op.address) THEN caught(op, "QueryError")
    ELSE IF rows = {} THEN [op EXCEPT !.pc = "Skipped"]
    ELSE IF ~getAdapterFound(adapters, row.chain, row.network)
    THEN caught(op, "AdapterNotFound")
    ELSE IF getBalanceThrows(adapter, op.address, request.token)
    THEN caught(op, "BalanceQueryError")
    ELSE IF belowThreshold(balance, gasFee) THEN [read EXCEPT !.pc = "Skipped"]
    ELSE [read EXCEPT !.pc = "transfer", !.attempted = TRUE,
                      !.amount = amountToFlush(balance, gasFee, request.token)]

evaluateAdapters(op) ==
    LET rows == addressMetadata(op.address)
        row == CHOOSE a \in rows : TRUE
    IN IF queryThrows(op.address) \/ rows = {} THEN adapters
       ELSE getAdapterRegistry(adapters, row.chain, row.network)

\* the request processSingleAddressFlush hands to transferService.transfer
flushTransferRequest(op, request) ==
    LET row == CHOOSE a \in addressMetadata(op.address) : TRUE
    IN TransferRequest(op.address, request.hotWalletAddress, op.amount, row.chain,
                       request.token)

Settled(op) == op.pc \in {"Skipped", "Failed", "Succeeded", "Thrown"}

\* results.filter(hash => hash !== null)
RECURSIVE hashesOf(_)
hashesOf(settled) ==
    IF settled = <<>> THEN <<>>
    ELSE (IF Head(settled).hash # None THEN <<Head(settled).hash>> ELSE <<>>)
         \o hashesOf(Tail(settled))

\* flushToHotWallet(request) up to its first await: the first chunk's calls are
\* made, each as far as its query
flushBegin(request) ==
    /\ flush.phase = "idle"
    /\ IF request.userAddresses = <<>>
       THEN /\ flush' = [phase |-> "done", request |-> request, i |-> 0,
                         txHashes |-> <<>>, settled |-> <<>>, chunks |-> <<>>]
            /\ ops' = <<>>
       ELSE /\ ops' = chunkOf(request.userAddresses, 0)
            /\ flush' = [phase |-> "running", request |-> request, i |-> 0,
                         txHashes |-> <<>>, settled |-> <<>>, chunks |-> <<Len(ops')>>]

\* flushToHotWallet(request) called from outside
flushToHotWallet(request) ==
    /\ flushBegin(request)
    /\ UNCHANGED <<adapters, dirVars, restVars, txVars>>

\* one address of the chunk: metadata, adapter, balance, fee, threshold, amount
processEvaluate(k) ==
    /\ flush.phase = "running"
    /\ k \in DOMAIN ops
    /\ ops[k].pc = "evaluate"
    /\ ops' = [ops EXCEPT ![k] = evaluateRun(ops[k], flush.request)]
    /\ adapters' = evaluateAdapters(ops[k])
    /\ UNCHANGED <<dirVars, restVars, txVars, flush>>

\* one address of the chunk: transferService.transfer returns or throws
processTransfer(k, out) ==
    LET request == flushTransferRequest(ops[k], flush.request)
        outcome == transferRun(request, out)
    IN
    /\ flush.phase = "running"
    /\ k \in DOMAIN ops
    /\ ops[k].pc = "transfer"
    /\ transferEffect(request, outcome)
    /\ xfer' = [request |-> request, out |-> out, outcome |-> outcome]
    /\ ops' = [ops EXCEPT ![k] =
                  IF outcome.result = "ok"
                  THEN [@ EXCEPT !.pc = "Succeeded", !.hash = outcome.hash]
                  ELSE caught(@, outcome.result)]
    /\ UNCHANGED <<dirVars, restVars, statusCall, watcher, flush>>

\* await Promise.all(...) resumes: the chunk's results are filtered into
\* txHashes and the loop goes on to the next chunk, or returns
chunkSettled ==
    LET next == flush.i + CONCURRENCY_LIMIT
        userAddresses == flush.request.userAddresses
        done == [flush EXCEPT !.settled = @ \o ops, !.txHashes = @ \o hashesOf(ops),
                              !.i = next]
    IN
    /\ flush.phase = "running"
    /\ \A k \in DOMAIN ops : Settled(ops[k])
    /\ IF \E k \in DOMAIN ops : ops[k].pc = "Thrown"
       THEN /\ flush' = [flush EXCEPT !.phase = "failed", !.settled = @ \o ops]
            /\ ops' = <<>>
       ELSE IF next >= Len(userAddresses)
       THEN /\ flush' = [done EXCEPT !.phase = "done"]
            /\ ops' = <<>>
       ELSE /\ ops' = chunkOf(userAddresses, next)
            /\ flush' = [done EXCEPT !.chunks = @ \o <<Len(ops')>>]
    /\ UNCHANGED <<adapters, dirVars, restVars, txVars>>

\* the address lists swept: every list of up to two addresses, and the leading
\* parts of a long list
SweepPattern == <<E0, Stranger, E1, S0, T2, T1>>

LongList(n) == [k \in 1..n |-> SweepPattern[((k - 1) % Len(SweepPattern)) + 1]]

AddressLists ==
    {<<>>} \cup { <<a>> : a \in ChainAddresses }
           \cup { <<a, b>> : a \in ChainAddresses, b \in ChainAddresses }
           \cup { LongList(n) : n \in (MaxAddrs - 1)..MaxAddrs }

FlushRequests ==
    { FlushRequest(l, HotWallet, EVM, token) :
         l \in AddressLists, token \in {Undefined, "token"} }

FlushService ==
    \/ \E request \in FlushRequests : flushToHotWallet(request)
    \/ \E k \in 1..CONCURRENCY_LIMIT : processEvaluate(k)
    \/ \E k \in 1..CONCURRENCY_LIMIT, out \in {"ok", "BroadcastError"} : processTransfer(k, out)
    \/ chunkSettled

\* ---------------------------------------------------------- scheduleAutoFlush

\* no flushToHotWallet call in progress
NoFlush == [phase |-> "idle", request |-> FlushRequest(<<>>, <<>>, None, Undefined),
            i |-> 0, txHashes |-> <<>>, settled |-> <<>>, chunks |-> <<>>]


\* what run() does after executeInternalFlush has returned: executeInternalFlush
\* wraps its whole body in try/catch and so always returns, and the next
\* statement of run() is setTimeout(run, ...)
afterTickUncaught(outcome) == IF outcome = "caught" THEN "stopped" ELSE "armed"

afterTick(outcome) == "armed"

\* the end of a tick: executeInternalFlush returns with the outcome and run()
\* arms the timer
tickEnds(outcome) ==
    auto' = [auto EXCEPT !.timer = afterTick(outcome), !.pc = "idle", !.last = outcome]

\* scheduleAutoFlush(chain): run() is called at once and reaches the await of
\* executeInternalFlush
scheduleAutoFlush(chainType) ==
    /\ auto.timer = None
    /\ flush.phase = "idle"
    /\ auto' = [auto EXCEPT !.timer = "running", !.pc = "hotWallet",
                            !.chain = chainType, !.ticks = 1]
    /\ UNCHANGED <<adapters, dirVars, txVars, flushVars, probe, guard>>

\* the timer set by run() fires: run() again
timerFires ==
    /\ auto.timer = "armed"
    /\ auto.ticks < MaxTicks
    /\ auto' = [auto EXCEPT !.timer = "running", !.pc = "hotWallet",
                            !.ticks = auto.ticks + 1]
    /\ flush' = NoFlush
    /\ ops' = <<>>
    /\ UNCHANGED <<adapters, dirVars, txVars, probe, guard>>

\* SELECT address FROM hot_wallets WHERE chain = $1 AND is_active = true LIMIT 1
activeHotWallets(chainType) ==
    { h \in auto.hotWallets : h.chain = chainType /\ h.is_active }

\* executeInternalFlush, the hot wallet query: it throws (caught), finds no row
\* (return), or gives the hot wallet address
autoHotWallet(dbOk) ==
    /\ auto.timer = "running"
    /\ auto.pc = "hotWallet"
    /\ IF ~dbOk
       THEN tickEnds("caught")
       ELSE IF activeHotWallets(auto.chain) = {}
            THEN tickEnds("noHotWallet")
            ELSE \E h \in activeHotWallets(auto.chain) :
                     auto' = [auto EXCEPT !.pc = "addresses", !.hotWalletAddress = h.address]
    /\ UNCHANGED <<adapters, dirVars, txVars, flushVars, probe, guard>>

\* executeInternalFlush calling flushToHotWallet without awaiting it: the tick
\* ends and run() arms the timer while the sweep is under way
autoAddressesUnawaited(dbOk) ==
    /\ auto.timer = "running"
    /\ auto.pc = "addresses"
    /\ LET userAddresses == { a.address : a \in { r \in addresses : r.chain = auto.chain } }
       IN  IF ~dbOk
           THEN tickEnds("caught") /\ UNCHANGED flushVars
           ELSE IF userAddresses = {}
                THEN tickEnds("noAddresses") /\ UNCHANGED flushVars
                ELSE \E list \in Orders(userAddresses) :
                         /\ flushBegin(FlushRequest(list, auto.hotWalletAddress,
                                                    auto.chain, Undefined))
                         /\ tickEnds("flushed")
    /\ UNCHANGED <<adapters, dirVars, txVars, probe, guard>>

\* executeInternalFlush, the address query and the call of flushToHotWallet with
\* every address of the chain and no token
autoAddresses(dbOk) ==
    /\ auto.timer = "running"
    /\ auto.pc = "addresses"
    /\ LET userAddresses == { a.address : a \in { r \in addresses : r.chain = auto.chain } }
       IN  IF ~dbOk
           THEN tickEnds("caught") /\ UNCHANGED flushVars
           ELSE IF userAddresses = {}
                THEN tickEnds("noAddresses") /\ UNCHANGED flushVars
                ELSE \E list \in Orders(userAddresses) :
                         /\ flushBegin(FlushRequest(list, auto.hotWalletAddress,
                                                    auto.chain, Undefined))
                         /\ auto' = [auto EXCEPT !.pc = "flush"]
    /\ UNCHANGED <<adapters, dirVars, txVars, probe, guard>>

\* executeInternalFlush, after the await of flushToHotWallet: it returns, or
\* what it threw is caught
autoFlushReturns ==
    /\ auto.timer = "running"
    /\ auto.pc = "flush"
    /\ flush.phase \in {"done", "failed"}
    /\ tickEnds(IF flush.phase = "done" THEN "flushed" ELSE "caught")
    /\ UNCHANGED <<adapters, dirVars, txVars, flushVars, probe, guard>>

\* one step of a tick that has begun
AutoFlushTick ==
    \/ \E dbOk \in BOOLEAN : autoHotWallet(dbOk)
    \/ \E dbOk \in BOOLEAN : autoAddresses(dbOk)
    \/ \E k \in 1..CONCURRENCY_LIMIT : processEvaluate(k)
    \/ \E k \in 1..CONCURRENCY_LIMIT, out \in {"ok", "BroadcastError"} : processTransfer(k, out)
    \/ chunkSettled
    \/ autoFlushReturns

AutoFlush ==
    \/ \E chainType \in {EVM, TON, BITCOIN} : scheduleAutoFlush(chainType)
    \/ timerFires
    \/ AutoFlushTick

\* --------------------------------------------------------- AdminController

\* INSERT INTO hot_wallets (chain, address, added_by) VALUES ($1, $2, $3)
\* ON CONFLICT (chain, address) DO UPDATE SET is_active = true
hotWalletUpsert(rows, chainType, address) ==
    { r \in rows : ~(r.chain = chainType /\ r.address = address) }
    \cup {[chain |-> chainType, address |-> address, is_active |-> TRUE]}

\* AdminController.addHotWallet: a request without chain (None) or without
\* address (the empty tuple) is turned away, any other is written
addHotWallet(chainType, address) ==
    /\ auto' = IF chainType = None \/ address = <<>>
               THEN auto
               ELSE [auto EXCEPT !.hotWallets = hotWalletUpsert(@, chainType, address)]
    /\ UNCHANGED <<adapters, dirVars, txVars, flushVars, probe, guard>>

AdminController ==
    \E chainType \in {EVM, TON, None}, address \in {<<>>, HotWallet, <<"0x", "hot2">>} :
       addHotWallet(chainType, address)

\* ------------------------------------------------------ ChainAdapterFactory

\* the network names callers pass to getAdapter (Undefined: none given)
Networks == {Undefined, "ethereum", "bsc", "mainnet", "testnet"}

\* what the calls made so far have done: the adapter last registered under each
\* key by a registerAdapter call, and how many adapters getAdapter has
\* constructed for each key
registeredSoFar ==
    IF probe.fn \in {"getAdapter", "registerAdapter"} THEN probe.registered ELSE <<>>

builtSoFar ==
    IF probe.fn \in {"getAdapter", "registerAdapter"} THEN probe.built ELSE <<>>

\* the key a getAdapter call has failed for, the first since the start or since
\* the registerAdapter call for the one before (none: the empty set)
failedSoFar ==
    IF probe.fn \in {"getAdapter", "registerAdapter"} THEN probe.failed ELSE {}

\* a getAdapter call that leaves an empty entry under a key it found nothing for
getAdapterCallCachingMiss(chain, network) ==
    LET key == AdapterKey(chain, network)
        after == getAdapterRegistry(adapters, chain, network)
        constructs == key \in DOMAIN after /\ (key \notin DOMAIN adapters \/ after[key] # adapters[key])
        built == IF constructs
                 THEN [k \in DOMAIN builtSoFar \cup {key} |->
                          IF k = key
                          THEN (IF key \in DOMAIN builtSoFar THEN builtSoFar[key] ELSE 0) + 1
                          ELSE builtSoFar[k]]
                 ELSE builtSoFar
    IN
    /\ adapters' = IF key \in DOMAIN after THEN after ELSE registerAdapter(after, key, NoAdapter)
    /\ probe' = IF getAdapterFound(adapters, chain, network)
                THEN [fn |-> "getAdapter", chain |-> chain, network |-> network,
                      result |-> "ok", adapter |-> getAdapter(adapters, chain, network),
                      registered |-> registeredSoFar, built |-> built,
                      failed |-> failedSoFar]
                ELSE [fn |-> "getAdapter", chain |-> chain, network |-> network,
                      result |-> "AdapterNotFound", adapter |-> NoAdapter,
                      registered |-> registeredSoFar, built |-> built,
                      failed |-> IF failedSoFar = {} THEN {key} ELSE failedSoFar]
    /\ UNCHANGED <<dirVars, txVars, flushVars, auto, guard>>

\* one call of ChainAdapterFactory.getAdapter(chain, network) from outside
getAdapterCall(chain, network) ==
    LET key == AdapterKey(chain, network)
        after == getAdapterRegistry(adapters, chain, network)
        constructs == key \in DOMAIN after /\ (key \notin DOMAIN adapters \/ after[key] # adapters[key])
        built == IF constructs
                 THEN [k \in DOMAIN builtSoFar \cup {key} |->
                          IF k = key
                          THEN (IF key \in DOMAIN builtSoFar THEN builtSoFar[key] ELSE 0) + 1
                          ELSE builtSoFar[k]]
                 ELSE builtSoFar
    IN
    /\ adapters' = after
    /\ probe' = IF getAdapterFound(adapters, chain, network)
                THEN [fn |-> "getAdapter", chain |-> chain, network |-> network,
                      result |-> "ok", adapter |-> getAdapter(adapters, chain, network),
                      registered |-> registeredSoFar, built |-> built,
                      failed |-> failedSoFar]
                ELSE [fn |-> "getAdapter", chain |-> chain, network |-> network,
                      result |-> "AdapterNotFound", adapter |-> NoAdapter,
                      registered |-> registeredSoFar, built |-> built,
                      failed |-> IF failedSoFar = {} THEN {key} ELSE failedSoFar]
    /\ UNCHANGED <<dirVars, txVars, flushVars, auto, guard>>

\* one call of ChainAdapterFactory.registerAdapter(key, adapter)
registerAdapterCall(key, adapter) ==
    /\ adapters' = registerAdapter(adapters, key, adapter)
    /\ probe' = [fn |-> "registerAdapter", chain |-> key[1], network |-> key[2],
                 result |-> "ok", adapter |-> adapter,
                 registered |-> [k \in DOMAIN registeredSoFar \cup {key} |->
                                    IF k = key THEN adapter ELSE registeredSoFar[k]],
                 built |-> builtSoFar,
                 failed |-> failedSoFar \ {key}]
    /\ UNCHANGED <<dirVars, txVars, flushVars, auto, guard>>

\* the registrations made after startup: the TON adapter left out of the
\* startup registrations, and a testnet adapter in place of the Bitcoin one
Registrations ==
    { <<AdapterKey(TON, "mainnet"), TONAdapter>>,
      <<AdapterKey(BITCOIN, Undefined), BitcoinAdapter("testnet")>> }

ChainAdapterFactory ==
    \/ \E chain \in ChainType, network \in Networks : getAdapterCall(chain, network)
    \/ \E r \in Registrations : registerAdapterCall(r[1], r[2])

\* ------------------------------------------- EncryptionService called directly

\* the texts encrypted and the draws of crypto.randomBytes
Texts == {1, 2, 300}
IvDraws == {1, 2}

\* what a caller can do to one of the three strings before handing them to
\* decrypt: nothing, another hex digit at a position, a capital for the digit at
\* a position, two characters that are no hex digits at the end, or only the
\* first n bytes
Tamper(field, kind, n) == [field |-> field, kind |-> kind, n |-> n]

Tampers ==
    {Tamper("tag", "none", 0)}
    \cup { Tamper(f, "flip", n) : f \in {"encrypted", "iv", "tag"}, n \in 1..4 }
    \cup { Tamper(f, "upper", n) : f \in {"encrypted", "iv", "tag"}, n \in 1..4 }
    \cup { Tamper(f, "junk", 0) : f \in {"encrypted", "iv", "tag"} }
    \cup { Tamper(f, "cut", n) : f \in {"encrypted", "iv", "tag"}, n \in {0, 1, 3, 4, 8, 12, 15} }

tamperString(str, t) ==
    CASE t.kind = "none" -> str
      [] t.kind = "flip" ->
            IF t.n \in DOMAIN str
            THEN [str EXCEPT ![t.n] = HexLower[((hexValue(str[t.n]) + 1) % 16) + 1]]
            ELSE str
      [] t.kind = "upper" ->
            IF t.n \in DOMAIN str
            THEN [str EXCEPT ![t.n] = HexUpper[hexValue(str[t.n]) + 1]]
            ELSE str
      [] t.kind = "junk" -> str \o <<"z", "z">>
      [] t.kind = "cut" -> SubSeq(str, 1, Min(2 * t.n, Len(str)))

tampered(e, t) == [e EXCEPT ![t.field] = tamperString(e[t.field], t)]

\* one call of EncryptionService.encrypt(text)
encryptCall(text, iv) ==
    /\ probe' = [fn |-> "encrypt", text |-> text, produced |-> encrypt(text, iv)]
    /\ UNCHANGED <<adapters, dirVars, txVars, flushVars, auto, guard>>

\* one call of EncryptionService.decrypt with the strings encrypt returned, as
\* they are or tampered with; returned holds the value returned, none when the
\* call throws
decryptCall(t) ==
    /\ probe.fn = "encrypt"
    /\ LET input == tampered(probe.produced, t)
       IN probe' = [fn |-> "decrypt", text |-> probe.text, produced |-> probe.produced,
                    input |-> input,
                    returned |-> IF decryptOk(input) THEN <<decrypt(input)>> ELSE <<>>]
    /\ UNCHANGED <<adapters, dirVars, txVars, flushVars, auto, guard>>

EncryptionService ==
    \/ \E text \in Texts, iv \in IvDraws : encryptCall(text, iv)
    \/ \E t \in Tampers : decryptCall(t)

\* --------------------------------------------- generateAddress called directly

\* the adapters, seeds and indices of the direct calls
DeriveAdapters == {EVMAdapter("ethereum", 1), BitcoinAdapter("testnet"), SolanaAdapter, TONAdapter}
DeriveMnemonics == {1, 2}
DeriveIndexes == {0, 1}

\* a call whose adapter derives at the index after the one of the call before,
\* not at the index given
generateAddressCallNextIndex(adapter, mnemonic, index) ==
    /\ probe.fn \in {None, "generateAddress"}
    /\ LET made == IF probe.fn = None THEN <<>> ELSE probe.log
           at == IF made = <<>> THEN index ELSE made[Len(made)].index + 1
       IN /\ Len(made) < MaxDerive
          /\ probe' = [fn |-> "generateAddress",
                       log |-> Append(made, [adapter |-> adapter, mnemonic |-> mnemonic,
                                             index |-> index,
                                             result |-> generateAddress(adapter, mnemonic, at)])]
    /\ UNCHANGED <<adapters, dirVars, txVars, flushVars, auto, guard>>

\* one call of adapter.generateAddress(mnemonic, index), added to the calls made
generateAddressCall(adapter, mnemonic, index) ==
    /\ probe.fn \in {None, "generateAddress"}
    /\ LET made == IF probe.fn = None THEN <<>> ELSE probe.log
       IN /\ Len(made) < MaxDerive
          /\ probe' = [fn |-> "generateAddress",
                       log |-> Append(made, [adapter |-> adapter, mnemonic |-> mnemonic,
                                             index |-> index,
                                             result |-> generateAddress(adapter, mnemonic, index)])]
    /\ UNCHANGED <<adapters, dirVars, txVars, flushVars, auto, guard>>

Derivation ==
    \E adapter \in DeriveAdapters, mnemonic \in DeriveMnemonics, index \in DeriveIndexes :
        generateAddressCall(adapter, mnemonic, index)

\* ------------------------------------------------ adapters called directly

\* one call of adapter.getBalance(address, token) through IChainAdapter;
\* returned holds the balance returned, none when the call throws
getBalanceCall(adapter, address, token) ==
    /\ probe' = [fn |-> "getBalance", adapter |-> adapter, address |-> address,
                 token |-> token,
                 returned |-> IF getBalanceThrows(adapter, address, token) THEN <<>>
                              ELSE <<getBalance(adapter, address, token)>>]
    /\ UNCHANGED <<adapters, dirVars, txVars, flushVars, auto, guard>>

\* one call of adapter.getTransactionStatus(txHash), the backend reporting `report`
getTransactionStatusCall(adapter, report) ==
    /\ probe' = [fn |-> "getTransactionStatus", adapter |-> adapter, report |-> report,
                 result |-> adapterTransactionStatus(adapter, report)]
    /\ UNCHANGED <<adapters, dirVars, txVars, flushVars, auto, guard>>

\* BitcoinAdapter.transfer, in satoshis

\* const fee = 1000
BitcoinFee == 1000
\* if (change > 546): the dust limit
DustLimit == 546

\* the amounts asked for, each the number of 1e-8 BTC its decimal text stands for
\* ("0.00000003" is 3, "0.29" is 29000000)
BtcAmounts == {0, 3, 500, 546, 1000, 29000000}

\* the amounts whose text times 100000000 falls just below the whole number in
\* double arithmetic: 0.00000003 * 1e8 = 2.9999999999999996 and
\* 0.29 * 1e8 = 28999999.999999996
FloorLosses == {3, 29000000}

\* Math.floor(parseFloat(params.amount) * 100000000)
amountSats(amount) == IF amount \in FloorLosses THEN amount - 1 ELSE amount

\* the unspent outputs the API lists for the source address, by value
UtxoValues == {1000, 1546, 1549, 29001546}

UtxoLists ==
    {<<>>} \cup { <<v>> : v \in UtxoValues }
           \cup { <<v, w>> : v \in {1000, 1546}, w \in {1000, 1546} }

RECURSIVE sumValues(_)
sumValues(values) ==
    IF values = <<>> THEN 0 ELSE Head(values) + sumValues(Tail(values))

\* the transaction the adapter builds from the listed outputs: every one an
\* input, the destination output, and the change output above the dust limit
bitcoinPsbt(utxos, amount) ==
    LET totalInput == sumValues(utxos)
        change == totalInput - amountSats(amount) - BitcoinFee
    IN [inputs |-> utxos,
        totalInput |-> totalInput,
        change |-> change,
        outputs |-> <<[to |-> "toAddress", value |-> amountSats(amount)]>>
                    \o (IF change > DustLimit
                        THEN <<[to |-> "fromAddress", value |-> change]>>
                        ELSE <<>>)]

outputTotal(psbt) == sumValues([k \in DOMAIN psbt.outputs |-> psbt.outputs[k].value])

\* BitcoinAdapter.transfer(params) with the API answering as `api` says: what it
\* built, whether it signed and posted it, and what it returns or throws
bitcoinTransferRun(utxos, amount, api) ==
    LET psbt == bitcoinPsbt(utxos, amount)
        none == [psbt |-> bitcoinPsbt(<<>>, 0), signed |-> FALSE, posted |-> FALSE]
    IN
    \* axios.get(.../utxo) throws
    IF api = "utxoDown" THEN none @@ [result |-> "ApiError"]
    \* psbt.signAllInputs with no input: 'No inputs were signed'
    ELSE IF utxos = <<>>
    THEN [psbt |-> psbt, signed |-> FALSE, posted |-> FALSE, result |-> "SigningError"]
    \* psbt.extractTransaction: 'Outputs are spending more than Inputs'
    ELSE IF outputTotal(psbt) > psbt.totalInput
    THEN [psbt |-> psbt, signed |-> TRUE, posted |-> FALSE, result |-> "OutputsExceedInputs"]
    \* axios.post(.../tx, txHex) answers or throws
    ELSE [psbt |-> psbt, signed |-> TRUE, posted |-> TRUE,
          result |-> IF api = "postDown" THEN "BroadcastError" ELSE "ok"]

\* one call of BitcoinAdapter.transfer
bitcoinTransferCall(utxos, amount, api) ==
    /\ probe' = [fn |-> "bitcoinTransfer", utxos |-> utxos, amount |-> amount, api |-> api,
                 run |-> bitcoinTransferRun(utxos, amount, api)]
    /\ UNCHANGED <<adapters, dirVars, txVars, flushVars, auto, guard>>

ChainAdapters ==
    \/ \E adapter \in DeriveAdapters, address \in ChainAddresses, token \in {Undefined, "token"} :
          getBalanceCall(adapter, address, token)
    \/ \E adapter \in DeriveAdapters, report \in ChainReports :
          getTransactionStatusCall(adapter, report)
    \/ \E utxos \in UtxoLists, amount \in BtcAmounts, api \in {"ok", "utxoDown", "postDown"} :
          bitcoinTransferCall(utxos, amount, api)

\* ------------------------------------------------- properties: directory

SameSlot(a, b) ==
    /\ a.wallet_id = b.wallet_id /\ a.chain = b.chain
    /\ a.network = b.network /\ a.address_index = b.address_index

\* the address is the one some registered adapter derives from the seed stored
\* with its wallet
DerivedFromStoredSeed(a) ==
    \E w \in wallets :
       /\ w.id = a.wallet_id
       /\ decryptOk(w.seed)
       /\ \E k \in DOMAIN adapters :
             generateAddress(adapters[k], decrypt(w.seed), a.address_index).address = a.address

\* C12: createWallet for a user who has a wallet reuses it: one wallet row per
\* user, its stored seed the one first created, every stored address derived
\* from that seed and from no second one, and the call does not fail on a
\* (chain, network) whose index-0 address is already there.
C12_ExistingWalletReused ==
    /\ \A w \in wallets : \A v \in wallets : w.user_id = v.user_id => w = v
    /\ \A a \in addresses : DerivedFromStoredSeed(a)
    /\ (returned.op = "createWallet" /\ returned.result = "UniqueViolation"
        /\ returned.row # NoRow) =>
          ~\E a \in addresses : SameSlot(a, returned.row)

\* C13: every user has at most one wallet row, however the createWallet calls
\* interleave.
C13_OneWalletPerUser ==
    \A u \in Users : Cardinality({ w \in wallets : w.user_id = u }) <= 1

\* C13: a createWallet call that found no wallet for its user has been turned
\* away at its INSERT, a concurrent call having created the wallet meanwhile
C13_Witness ==
    /\ returned.op = "createWallet"
    /\ returned.result = "UniqueViolation"
    /\ returned.row = NoRow
    /\ \E w \in wallets : w.user_id = returned.user

\* C14: no line written to the console carries a plaintext mnemonic, and every
\* wallet row holds what encrypt produced: ciphertext, IV and tag.
C14_SeedNeverPlain ==
    /\ \A l \in console : l.mnemonic = 0
    /\ \A w \in wallets :
          /\ DOMAIN w.seed = {"encrypted", "iv", "tag"}
          /\ decryptOk(w.seed)

\* C3: for every wallet and every (chain, network) the indices of the stored
\* addresses are pairwise distinct and are 0..n-1, and the store turns an
\* address away only when its (wallet, chain, network, index) is taken, so
\* that index 0 is open on each network of a chain.
C3_IndicesPerNetwork ==
    /\ \A a \in addresses :
          /\ \A b \in addresses : SameSlot(a, b) => a = b
          /\ \A i \in 0..a.address_index :
                \E b \in addresses : SameSlot([a EXCEPT !.address_index = i], b)
    /\ (returned.result = "UniqueViolation" /\ returned.row # NoRow) =>
          \E a \in addresses : SameSlot(a, returned.row)

\* C4: no two stored addresses share (wallet, chain, network, index), however
\* the generateNewAddress calls interleave.
C4_NoDuplicateIndex ==
    \A a \in addresses : \A b \in addresses : SameSlot(a, b) => a = b

\* C4: a generateNewAddress call has been turned away by the store because a
\* concurrent call that read the same maximum has taken its index
C4_Witness ==
    /\ returned.op = "generateNewAddress"
    /\ returned.result = "UniqueViolation"
    /\ returned.row.address_index > 0
    /\ \E a \in addresses :
          /\ SameSlot(a, returned.row)
          /\ nextIndexOf(addresses \ {a}, a.wallet_id, a.chain, a.network) = a.address_index

\* C21: with requests made one at a time, a createWallet with the chain list
\* [EVM, BITCOIN] that created its user's wallet returns ok and has stored one
\* EVM and one Bitcoin address for it, both at index 0, with different
\* derivation paths
C21_TwoChainWallet ==
    (/\ clients.slots = {1}
     /\ returned.op = "createWallet"
     /\ returned.chains \in {<<BareEVM, BareBTC>>, controllerChains(<<BareEVM, BareBTC>>)}
     /\ \E w \in wallets : w.user_id = returned.user /\ w.seed = returned.seed) =>
       /\ returned.result = "ok"
       /\ \E e \in addresses, b \in addresses :
             /\ e.wallet_id = returned.walletId /\ e.chain = EVM /\ e.address_index = 0
             /\ b.wallet_id = returned.walletId /\ b.chain = BITCOIN /\ b.address_index = 0
             /\ e.derivation_path # b.derivation_path
       /\ Cardinality({ a \in addresses : a.wallet_id = returned.walletId }) = 2

\* C26: every stored address is the address that the adapter TransferService
\* takes for the record's chain and network derives from the decrypted seed of
\* the owning wallet at the record's index
C26_AddressesFromStoredSeed ==
    \A a \in addresses :
       \E w \in wallets :
          /\ w.id = a.wallet_id
          /\ decryptOk(w.seed)
          /\ getAdapterFound(adapters, a.chain, a.network)
          /\ generateAddress(getAdapter(adapters, a.chain, a.network), decrypt(w.seed),
                             a.address_index).address = a.address

\* the rows the createWallet call that returned last has put into the store:
\* the wallet holding the seed it encrypted, the addresses derived from its
\* mnemonic
RowsOfReturned ==
    { w \in wallets : w.seed = returned.seed }
    \cup { a \in addresses :
             /\ a.wallet_id = returned.walletId
             /\ decryptOk(returned.seed)
             /\ \E key \in DOMAIN adapters :
                   generateAddress(adapters[key], decrypt(returned.seed), 0).address = a.address }

\* C34: a createWallet call that failed has left no wallet row and no address
\* row of its own in the store
C34_AllOrNothing ==
    (returned.op = "createWallet" /\ returned.result # "ok") => RowsOfReturned = {}

\* ------------------------------------------------- properties: registry

\* the network an adapter was built for is the one asked for
BuiltFor(adapter, chain, network) ==
    /\ adapter.kind = chain
    /\ CASE chain = EVM -> adapter.rpc = network
         [] chain = BITCOIN -> network \in {Undefined, adapter.net}
         [] chain = SOLANA -> network \in {Undefined, "mainnet"}
         [] OTHER -> network \in {Undefined, "mainnet"}

\* C11: getAdapter returns an adapter only when one is configured for the
\* (chain, network) asked, and then the one built for that network; for any
\* other pair, of whatever chain, it fails with the adapter-not-found error.
C11_UnconfiguredPairFails ==
    (probe.fn = "getAdapter" /\ probe.result = "ok") =>
        BuiltFor(probe.adapter, probe.chain, probe.network)

\* C22: the registry is a cache by key: getAdapter constructs at most one
\* adapter per key, a key registered at startup and not registered again keeps
\* its adapter, a key registered by registerAdapter holds the adapter registered
\* last, and a getAdapter that returns gives the adapter the registry holds
C22_RegistryCache ==
    /\ \A k \in DOMAIN builtSoFar : builtSoFar[k] <= 1
    /\ \A k \in DOMAIN registeredSoFar :
          k \in DOMAIN adapters /\ adapters[k] = registeredSoFar[k]
    /\ \A k \in DOMAIN StartupAdapters \ DOMAIN registeredSoFar :
          k \in DOMAIN adapters /\ adapters[k] = StartupAdapters[k]
    /\ (probe.fn = "getAdapter" /\ probe.result = "ok") =>
          probe.adapter = adapters[AdapterKey(probe.chain, probe.network)]

\* C22 witness: getAdapter(BITCOIN) has returned the adapter registered over the
\* startup one, after a getAdapter call had constructed an adapter for another
\* key
C22_Witness ==
    /\ probe.fn = "getAdapter"
    /\ probe.chain = BITCOIN /\ probe.network = Undefined
    /\ probe.adapter = BitcoinAdapter("testnet")
    /\ probe.adapter # StartupAdapters[AdapterKey(BITCOIN, Undefined)]
    /\ \E k \in DOMAIN probe.built : probe.built[k] = 1

\* C38: a getAdapter call that fails leaves the registry as it was, with no
\* entry under the key asked for, and every later getAdapter call for that key
\* fails too until registerAdapter is called for it
C38_FailedLookupNoEffect ==
    /\ [][(probe'.fn = "getAdapter" /\ probe'.result # "ok") => adapters' = adapters]_vars
    /\ [](\A k \in failedSoFar : k \notin DOMAIN adapters)
    /\ [][(probe'.fn = "getAdapter"
           /\ AdapterKey(probe'.chain, probe'.network) \in failedSoFar) =>
             probe'.result # "ok"]_vars

\* C38 witness: getAdapter has succeeded for a key registered after its
\* failure, with another key that failed since still without entry and an
\* adapter constructed for a third
C38_Witness ==
    /\ probe.fn = "getAdapter"
    /\ probe.result = "ok"
    /\ probe.chain = TON /\ probe.network = "mainnet"
    /\ probe.failed = {AdapterKey(EVM, "mainnet")}
    /\ \E k \in DOMAIN probe.built : probe.built[k] = 1

\* ------------------------------------------------- properties: transfers

\* C2: once a transaction row's stored status is confirmed or failed, no step
\* (a getTransactionStatus call or a turn of the poller) stores another status
\* for it: it never returns to pending and never moves to the other terminal
\* state.
C2_TerminalStatusFinal ==
    [][\A t \in transactions :
          t.status \in {"confirmed", "failed"} =>
             \A u \in transactions' : u.tx_hash = t.tx_hash => u.status = t.status]_vars

\* C15: within a tick of the poller, whatever happens while one pending
\* transaction is reconciled, the transactions fetched after it stay to be
\* reconciled in that tick: a turn of the loop takes the first one off and
\* leaves the rest.
C15_TickGoesOn ==
    [][(watcher.queue # <<>> /\ watcher' # watcher) =>
          watcher'.queue = Tail(watcher.queue)]_vars

\* the balance of the asset a request moves: the token's when one is given
AssetBalance(request) ==
    IF request.token = Undefined
    THEN ledger.native[request.fromAddress]
    ELSE ledger.token[request.fromAddress]

\* C8: whenever the broadcast inside transfer has succeeded, the call returns
\* the identifier and has stored a pending row carrying the request's chain,
\* the address's network, the asset, the amount and that identifier.
C8_BroadcastRecorded ==
    xfer.outcome.sent =>
       /\ xfer.outcome.result = "ok"
       /\ \E r \in xfer.outcome.rows :
             /\ r.status = "pending"
             /\ r.tx_hash = xfer.outcome.hash
             /\ r.chain = xfer.request.chain
             /\ \E a \in addresses :
                   a.address = xfer.request.fromAddress /\ a.network = r.network
             /\ r.token = xfer.request.token
             /\ r.amount = xfer.request.amount
             /\ \E t \in transactions :
                   t.tx_hash = r.tx_hash /\ t.from_address = r.from_address

\* C9: a transfer whose source address holds less of the asset being moved than
\* the amount asked fails with the insufficient-funds error, the seed not
\* decrypted, the adapter's transfer not called, no row stored.
C9_InsufficientFundsRejected ==
    ( /\ xfer.outcome.result \notin {None, "AddressNotFound", "AdapterNotFound",
                                     "BalanceQueryError"}
      /\ AssetBalance(xfer.request) < xfer.request.amount )
    => /\ xfer.outcome.result = "InsufficientFunds"
       /\ ~xfer.outcome.decrypted
       /\ xfer.outcome.broadcasts = 0
       /\ xfer.outcome.rows = NoTx

\* C10: one transfer call reaches the adapter's transfer at most once, and when
\* that broadcast fails the caller gets the adapter's error as it was thrown and
\* table transactions is left as it was.
C10_FailedBroadcastSurfaces ==
    [][xfer' # xfer =>
          /\ xfer'.outcome.broadcasts <= 1
          /\ (xfer'.outcome.broadcasts = 1 /\ xfer'.out # "ok") =>
                /\ xfer'.outcome.result = xfer'.out
                /\ ~xfer'.outcome.sent
                /\ transactions' = transactions]_vars

\* C10: a transfer whose broadcast failed has returned, after an earlier one was
\* recorded
C10_Witness ==
    /\ xfer.outcome.broadcasts = 1
    /\ xfer.out = "BroadcastError"
    /\ xfer.outcome.result = "BroadcastError"
    /\ transactions # {}

\* C23: a transfer call from an address the directory does not hold for the
\* chain of the request fails with the address-not-found error, having asked
\* for no balance, decrypted no seed, broadcast nothing and written no row; the
\* store, the chains and the registry are as before the call
C23_UnknownAddressRejected ==
    [][(/\ xfer' # xfer
        /\ ~\E a \in addresses : /\ a.address = xfer'.request.fromAddress
                                  /\ a.chain = xfer'.request.chain) =>
          /\ xfer'.outcome.result = "AddressNotFound"
          /\ ~xfer'.outcome.queried
          /\ ~xfer'.outcome.decrypted
          /\ xfer'.outcome.broadcasts = 0
          /\ xfer'.outcome.rows = NoTx
          /\ transactions' = transactions
          /\ ledger' = ledger
          /\ adapters' = adapters
          /\ wallets' = wallets /\ addresses' = addresses]_vars

\* C23 witness: after a transfer that was recorded, a transfer from an address
\* held for another chain than the one requested has been rejected
C23_Witness ==
    /\ xfer.outcome.result = "AddressNotFound"
    /\ xfer.request.fromAddress = E0
    /\ xfer.request.chain = SOLANA
    /\ transactions # {}

\* what one getTransactionStatus call that the adapter answered, or that found
\* no record, may do to the store
StatusCallWrites ==
    LET h == statusCall'.hash
        result == statusCall'.result
        found == { t \in transactions : t.tx_hash = h }
        tx == CHOOSE t \in found : TRUE
    IN statusCall' # statusCall =>
         /\ found = {} => result = "TransactionNotFound" /\ transactions' = transactions
         /\ result = "TransactionNotFound" => found = {} /\ statusCall'.returns = <<>>
         /\ (found # {} /\ result \notin {"pending", "confirmed", "failed"}) =>
               transactions' = transactions /\ statusCall'.returns = <<>>
         /\ (found # {} /\ result \in {"pending", "confirmed", "failed"}) =>
               /\ statusCall'.returns = <<[tx EXCEPT !.status = result]>>
               /\ result = tx.status => transactions' = transactions
               /\ result # tx.status =>
                     transactions' = (transactions \ {tx})
                        \cup {[tx EXCEPT !.status = result,
                                         !.confirmed_at = (result = "confirmed")]}

RecordedHashes ==
    { <<"tx", r.fromAddress, n>> : r \in TransferRequests, n \in 0..(MaxTx - 1) }
    \cup { <<"seqno", n>> : n \in 0..(MaxTx - 1) }

\* the poller's turn for h comes while the backend's answer for h is confirmed
\* or failed
TerminalTurn(h) ==
    /\ watcher.queue # <<>>
    /\ Head(watcher.queue) = h
    /\ \E answer \in {"confirmed", "failed"} : watcherCheck(answer)

\* C27: with the poller ticking, a stored pending transaction of whatever chain
\* whose turn comes again and again while its backend answers confirmed or
\* failed is in the end stored with a terminal status
C27_PendingReconciled ==
    \A h \in RecordedHashes :
       ([]<><<TerminalTurn(h)>>_vars) =>
          ((\E t \in transactions : t.tx_hash = h /\ t.status = "pending")
             ~> (\E t \in transactions : t.tx_hash = h /\ t.status \in {"confirmed", "failed"}))

\* ---------------------------------------------------- properties: sweeps

\* every per-address operation the sweep has started so far
OpsSeen ==
    { flush.settled[k] : k \in DOMAIN flush.settled } \cup { ops[k] : k \in DOMAIN ops }

\* the identifiers of the entries that succeeded, in list order
SucceededHashes ==
    LET won == SelectSeq(flush.settled, LAMBDA o : o.pc = "Succeeded")
    IN [k \in DOMAIN won |-> won[k].hash]

\* C1: a sweep never fails as a whole and no per-address error leaves its
\* operation; when it returns, every listed address has been processed, and the
\* list returned holds exactly the identifiers of the transfers that succeeded,
\* none for a skipped or failed address.
C1_FailuresContained ==
    /\ flush.phase # "failed"
    /\ \A o \in OpsSeen : o.pc # "Thrown"
    /\ flush.phase = "done" =>
          /\ Len(flush.settled) = Len(flush.request.userAddresses)
          /\ \A k \in DOMAIN flush.settled :
                /\ flush.settled[k].address = flush.request.userAddresses[k]
                /\ flush.settled[k].pc \in {"Skipped", "Failed", "Succeeded"}
                /\ flush.settled[k].pc = "Succeeded" <=> flush.settled[k].hash # None
                /\ flush.settled[k].pc = "Succeeded" =>
                      \E t \in transactions :
                         /\ t.tx_hash = flush.settled[k].hash
                         /\ t.from_address = flush.settled[k].address
          /\ flush.txHashes = SucceededHashes

\* C1: a sweep of twelve addresses has returned with identifiers although one
\* entry's transfer failed at the broadcast and another's at the record insert,
\* a later entry having succeeded
C1_Witness ==
    /\ flush.phase = "done"
    /\ flush.txHashes # <<>>
    /\ \E i \in DOMAIN flush.settled, j \in DOMAIN flush.settled, k \in DOMAIN flush.settled :
          /\ flush.settled[i].pc = "Failed" /\ flush.settled[i].error = "BroadcastError"
          /\ flush.settled[j].pc = "Failed" /\ flush.settled[j].error = "UniqueViolation"
          /\ i < k /\ j < k
          /\ flush.settled[k].pc = "Succeeded"

\* C5: an entry whose balance is at most twice the estimated fee is skipped, no
\* transfer attempted, no error raised, nothing contributed to the result; a
\* transfer is attempted only from a balance strictly above twice the fee.
C5_ThresholdSkip ==
    /\ \A o \in OpsSeen :
          /\ (o.balance >= 0 /\ o.balance <= 2 * o.gasFee) =>
                /\ o.pc = "Skipped" /\ ~o.attempted
                /\ o.error = None /\ o.hash = None
          /\ o.attempted => (o.balance >= 0 /\ o.balance > 2 * o.gasFee)
    /\ \A t \in transactions :
          \E o \in OpsSeen : o.address = t.from_address /\ o.attempted

\* C5: an entry with balance 0.002 and fee 0.001 has been skipped
C5_Witness ==
    \E o \in OpsSeen :
       /\ o.balance = 2000 /\ o.gasFee = 1000
       /\ o.pc = "Skipped" /\ ~o.attempted

\* C6: the amount an entry hands to transfer is the balance read less the
\* estimated fee in a native sweep and the whole balance read in a token
\* sweep, and every transfer request made carries that amount.
C6_AmountToFlush ==
    /\ \A o \in OpsSeen :
          o.attempted =>
             o.amount = IF flush.request.token = Undefined
                        THEN o.balance - o.gasFee
                        ELSE o.balance
    /\ xfer.request # NoRequest =>
          \E o \in OpsSeen :
             /\ o.attempted
             /\ xfer.request.fromAddress = o.address
             /\ xfer.request.amount = o.amount
             /\ xfer.request.token = flush.request.token
             /\ xfer.request.toAddress = flush.request.hotWalletAddress

\* C6: a native balance of 1.0 has been swept with fee 0.001 as 0.999
C6_Witness ==
    /\ flush.request.token = Undefined
    /\ xfer.request.amount = 999000
    /\ \E o \in OpsSeen :
          /\ o.address = xfer.request.fromAddress
          /\ o.balance = 1000000 /\ o.gasFee = 1000 /\ o.amount = 999000
          /\ o.pc = "Succeeded"

\* C7: at most 5 per-address operations are in flight, the operations started
\* all belong to the chunk that follows the settled ones, the chunks are the
\* consecutive runs of 5 with a shorter last one, and the result keeps the
\* successes of every chunk whatever failed in another.
C7_ChunkedSweep ==
    /\ Cardinality({ k \in DOMAIN ops : ~Settled(ops[k]) }) <= CONCURRENCY_LIMIT
    /\ flush.phase = "running" => Len(flush.settled) % CONCURRENCY_LIMIT = 0
    /\ \A k \in DOMAIN ops :
          /\ ops[k].pos > Len(flush.settled)
          /\ ops[k].pos <= Len(flush.settled) + CONCURRENCY_LIMIT
    /\ \A j \in DOMAIN flush.chunks :
          flush.chunks[j] =
             Min(CONCURRENCY_LIMIT,
                 Len(flush.request.userAddresses) - CONCURRENCY_LIMIT * (j - 1))
    /\ flush.phase = "done" =>
          /\ Len(flush.chunks) =
                (Len(flush.request.userAddresses) + CONCURRENCY_LIMIT - 1)
                   \div CONCURRENCY_LIMIT
          /\ \A k \in DOMAIN flush.settled :
                flush.settled[k].pc = "Succeeded" =>
                   \E h \in DOMAIN flush.txHashes :
                      flush.txHashes[h] = flush.settled[k].hash

\* C7: twelve addresses have been swept in chunks of 5, 5 and 2, a transfer of
\* the second chunk failed, and successes of the first and the third are
\* returned
C7_Witness ==
    /\ flush.phase = "done"
    /\ Len(flush.request.userAddresses) = 12
    /\ flush.chunks = <<5, 5, 2>>
    /\ \E a \in 1..5, b \in 6..10, c \in 11..12 :
          /\ flush.settled[a].pc = "Succeeded"
          /\ flush.settled[b].pc = "Failed" /\ flush.settled[b].attempted
          /\ flush.settled[c].pc = "Succeeded"
          /\ \E h \in DOMAIN flush.txHashes : flush.txHashes[h] = flush.settled[a].hash
          /\ \E h \in DOMAIN flush.txHashes : flush.txHashes[h] = flush.settled[c].hash

\* C17: when the fee lookup throws, an entry whose balance was read is not
\* failed by it: its fee is the fixed fallback estimate, it is skipped when the
\* balance is at most twice that estimate, and otherwise a transfer is
\* attempted with the balance less the estimate (native) or the whole balance
\* (token)
C17_FallbackFee ==
    getGasPriceThrows =>
       \A o \in OpsSeen :
          (/\ o.pc # "evaluate"
           /\ addressMetadata(o.address) # {}
           /\ o.error \notin {"QueryError", "AdapterNotFound", "BalanceQueryError"}) =>
             /\ o.balance >= 0
             /\ o.gasFee = FallbackGasFee
             /\ IF o.balance <= 2 * FallbackGasFee
                THEN o.pc = "Skipped" /\ ~o.attempted /\ o.error = None
                ELSE /\ o.attempted
                     /\ o.amount = IF flush.request.token = Undefined
                                    THEN o.balance - FallbackGasFee
                                    ELSE o.balance

\* C17 witness: with the fee lookup failing, one sweep has skipped an entry on
\* the fallback threshold and transferred another's balance less the fallback
C17_Witness ==
    /\ getGasPriceThrows
    /\ \E o \in OpsSeen, q \in OpsSeen :
          /\ o.pc = "Skipped" /\ o.balance = 2 * FallbackGasFee /\ o.gasFee = FallbackGasFee
          /\ q.pc = "Succeeded" /\ q.gasFee = FallbackGasFee
          /\ q.amount = q.balance - FallbackGasFee

\* C25: the fee estimate of an entry whose fee was estimated is the live fee
\* rate times 21000 units in a native sweep and times 65000 units in a token
\* sweep when the lookup answers (here a rate in gwei and a fee in micro-units),
\* and the fixed default exactly when the lookup throws
C25_FeeFromRate ==
    \A o \in OpsSeen :
       o.gasFee >= 0 =>
          IF ledger.gasPrice = <<>>
          THEN o.gasFee = 1000
          ELSE o.gasFee = (ledger.gasPrice[1]
                           * (IF flush.request.token = Undefined THEN 21000 ELSE 65000)) \div 1000

\* C25 witness: with the lookup answering 100 gwei, an entry of a token sweep
\* with the balance 0.013 has been evaluated with the fee 0.0065 and skipped
C25_Witness ==
    /\ ledger.gasPrice = <<100>>
    /\ flush.request.token # Undefined
    /\ \E o \in OpsSeen : o.gasFee = 6500 /\ o.pc = "Skipped" /\ o.balance = 13000

\* the moves an entry of the running chunk may make in one step
EntryMoves(o, p) ==
    \/ p = o
    \/ /\ o.pc = "evaluate"
       /\ p.pc \in {"Skipped", "Failed", "transfer"}
       /\ p.pc = "transfer" => (p.balance >= 0 /\ p.gasFee >= 0 /\ p.attempted)
       /\ p.pc # "transfer" => ~p.attempted
    \/ /\ o.pc = "transfer"
       /\ p.pc \in {"Succeeded", "Failed"}
       /\ p.balance = o.balance /\ p.gasFee = o.gasFee /\ p.amount = o.amount

\* the entries of the running chunk that hand their transfer in in this step
Submitting ==
    { k \in DOMAIN ops : ops[k].pc = "transfer" /\ (k \notin DOMAIN ops' \/ ops'[k] # ops[k]) }

EntrySteps ==
    /\ (flush.phase = "running" /\ flush'.phase = "running" /\ flush'.i = flush.i) =>
          /\ DOMAIN ops' = DOMAIN ops
          /\ \A k \in DOMAIN ops :
                /\ ops'[k].pos = ops[k].pos /\ ops'[k].address = ops[k].address
                /\ EntryMoves(ops[k], ops'[k])
          /\ flush'.settled = flush.settled
    \* an entry leaves the chunk only when it has ended, and is kept as it ended
    /\ (flush.phase = "running" /\ (flush'.phase # "running" \/ flush'.i # flush.i)) =>
          /\ \A k \in DOMAIN ops : ops[k].pc \in {"Skipped", "Failed", "Succeeded"}
          /\ flush'.settled = flush.settled \o ops
    \* the chain and the store are touched by one entry's transfer and nothing else
    /\ (ledger' # ledger \/ transactions' # transactions \/ xfer' # xfer) =>
          /\ Cardinality(Submitting) = 1
          /\ \A k \in Submitting :
                /\ ops[k].balance >= 0
                /\ xfer'.request.fromAddress = ops[k].address
                /\ xfer'.outcome.broadcasts <= 1
                /\ transactions' \ transactions \subseteq xfer'.outcome.rows
                /\ Cardinality(transactions' \ transactions) <= 1

\* C29: within one flushToHotWallet call every listed entry is evaluated and
\* then skipped, failed, or handed to one transfer that succeeds or fails; an
\* entry that has ended is not taken up again, no entry has more than one
\* transfer, and the balance has been read before the transfer is submitted
C29_EntryLifecycle ==
    /\ [](\A k \in DOMAIN (flush.settled \o ops) :
            /\ (flush.settled \o ops)[k].pos = k
            /\ (flush.settled \o ops)[k].address = flush.request.userAddresses[k])
    /\ [][EntrySteps]_vars

\* a call in which one entry was skipped, one failed in its transfer and one
\* succeeded
C29_Witness ==
    /\ flush.phase = "done"
    /\ \E i \in DOMAIN flush.settled, j \in DOMAIN flush.settled, k \in DOMAIN flush.settled :
          /\ flush.settled[i].pc = "Skipped" /\ flush.settled[i].balance >= 0
          /\ flush.settled[j].pc = "Failed" /\ flush.settled[j].attempted
          /\ flush.settled[k].pc = "Succeeded" /\ flush.settled[k].attempted

\* C33: every transfer a sweep submits has an amount above 0 and not above the
\* balance the sweep read for the address, in native and in token sweeps and
\* with the fee from the gas price (zero included) or from the fallback
C33_AmountWithinBalance ==
    /\ \A o \in OpsSeen :
          o.attempted => (o.gasFee >= 0 /\ 0 < o.amount /\ o.amount <= o.balance)
    /\ (flush.phase # "idle" /\ xfer.request # NoRequest) =>
          /\ xfer.request.amount > 0
          /\ \E o \in OpsSeen :
                /\ o.attempted /\ o.address = xfer.request.fromAddress
                /\ o.amount = xfer.request.amount
                /\ xfer.request.amount <= o.balance

\* a native sweep with a gas price of zero has submitted the whole balance of
\* an address
C33_Witness ==
    /\ ledger.gasPrice = <<0>>
    /\ flush.request.token = Undefined
    /\ \E o \in OpsSeen :
          /\ o.pc = "Succeeded" /\ o.gasFee = 0
          /\ o.amount = o.balance /\ o.amount = xfer.request.amount

\* --------------------------------------------------- claims: middleware

\* an approved record of the last hour for the same addresses and amount is on
\* file
ApprovedOnFile(body) ==
    \E a \in guard.approvals :
       /\ a.from_address = body.fromAddress /\ a.to_address = body.toAddress
       /\ a.amount = body.amount /\ a.status = "approved" /\ a.recent

\* one call of the approval gate, seen from the records on file before it
ApprovalGateStep ==
    LET body == guard'.last.request
        outcome == guard'.last.outcome
        above == body.amount > APPROVAL_THRESHOLD
        admin == guard.role = "admin"
    IN (guard'.n = guard.n + 1 /\ guard'.last.mw = "approval") =>
         /\ outcome \in {"next", "pending_approval", "error"}
         /\ outcome = "next" => (~above \/ admin \/ ApprovedOnFile(body))
         /\ ~above => (outcome = "next" /\ guard'.approvals = guard.approvals)
         /\ (outcome # "error" /\ (admin \/ ApprovedOnFile(body))) =>
               (outcome = "next" /\ guard'.approvals = guard.approvals)
         /\ (outcome # "error" /\ above /\ ~admin /\ ~ApprovedOnFile(body)) =>
               /\ outcome = "pending_approval"
               /\ \E a \in guard'.approvals \ guard.approvals :
                     /\ guard'.approvals = guard.approvals \cup {a}
                     /\ a.status = "pending"
                     /\ a.from_address = body.fromAddress /\ a.to_address = body.toAddress
                     /\ a.amount = body.amount
         /\ outcome = "error" => (above /\ guard'.approvals = guard.approvals)
         /\ guard'.passed = guard.passed

\* C36: the approval gate lets a request above the threshold from a requester
\* who is no admin go on to the transfer only when an approved record of the
\* last hour for the same addresses and amount is on file, and otherwise files
\* a pending approval request and stops it; requests at or below the threshold
\* and requests of admins go on (a store that does not answer ends the request
\* with its error)
C36_ApprovalGate == [][ApprovalGateStep]_vars

\* C36 witness: a user's request above the threshold, stopped before, has gone
\* on after its approval
C36_Witness ==
    /\ guard.role = "user"
    /\ guard.last.mw = "approval"
    /\ guard.last.outcome = "next"
    /\ guard.last.request.amount > APPROVAL_THRESHOLD
    /\ ApprovedOnFile(guard.last.request)
    /\ \E a \in guard.approvals : a.status = "pending"

\* C37: however the requests that pass checkDailyLimit and their transfers
\* interleave, the amounts recorded today from one source address, failed ones
\* left out, stay within the requester's daily limit
C37_DailyLimitHeld ==
    guard.role # None =>
       \A t \in transactions : dailyTotal(t.from_address) <= dailyLimit(guard.role)

\* ------------------------------------------------------- claims: adapters

\* C31: a Bitcoin transfer whose listed outputs sum to less than amount plus
\* fee fails (whatever error it throws is taken for the insufficient-funds
\* error) and posts nothing, and no transaction whose outputs exceed its inputs
\* is signed or posted
C31_InsufficientFunds ==
    probe.fn = "bitcoinTransfer" =>
       /\ (probe.api # "utxoDown" /\ sumValues(probe.utxos) < probe.amount + BitcoinFee) =>
             /\ probe.run.result \notin {"ok", "BroadcastError"}
             /\ ~probe.run.posted
       /\ (probe.run.signed \/ probe.run.posted) =>
             outputTotal(probe.run.psbt) <= sumValues(probe.utxos)

\* C32: with change = total input - amount - fee, the transaction built has a
\* change output to the source address exactly when change is above the dust
\* limit, and otherwise the destination output alone, the change left to the fee
C32_ChangeAboveDust ==
    (probe.fn = "bitcoinTransfer" /\ probe.api # "utxoDown") =>
       LET change == sumValues(probe.utxos) - probe.amount - BitcoinFee
           outputs == probe.run.psbt.outputs
       IN /\ outputs[1].to = "toAddress"
          /\ IF change > DustLimit
             THEN outputs = <<outputs[1], [to |-> "fromAddress", value |-> change]>>
             ELSE outputs = <<outputs[1]>>

\* C24: getBalance of an adapter that supports no token (every adapter but the
\* EVM one), called with a token identifier, throws: it returns no balance
C24_UnsupportedTokenFails ==
    (probe.fn = "getBalance" /\ probe.token # Undefined /\ probe.adapter.kind # EVM) =>
        probe.returned = <<>>

\* C30: an adapter's getTransactionStatus answers failed only for a transaction
\* the chain reports reverted or errored and confirmed only for one it reports
\* final; for a transaction not seen or a backend out of reach it answers
\* neither
C30_StatusFollowsChain ==
    probe.fn = "getTransactionStatus" =>
       /\ probe.result = "failed" => probe.report = "reverted"
       /\ probe.result = "confirmed" => probe.report = "finalized"
       /\ probe.report \in {"unseen", "unreachable"} =>
             probe.result \notin {"failed", "confirmed"}

\* ----------------------------------------------------- claims: encryption

\* C18: decrypt called with a ciphertext, IV or tag that differs from the one
\* encrypt produced throws and returns no plaintext
C18_DecryptFailsClosed ==
    (probe.fn = "decrypt" /\ probe.input # probe.produced) => probe.returned = <<>>

\* C19: decrypt called with the ciphertext, IV and tag encrypt(s) returned
\* returns exactly s
C19_RoundTrip ==
    (probe.fn = "decrypt" /\ probe.input = probe.produced) => probe.returned = <<probe.text>>

\* C19 witness: the two-byte text 300 has come back from decrypt
C19_Witness ==
    /\ probe.fn = "decrypt"
    /\ probe.input = probe.produced
    /\ probe.text = 300
    /\ probe.returned = <<300>>

\* ----------------------------------------------------- claims: derivation

C16_ScheduleGoesOn ==
    /\ [](auto.timer # "stopped")
    /\ (auto.timer = "running") ~> (auto.timer = "armed")
    /\ []((auto.timer # None /\ activeHotWallets(auto.chain) = {}) =>
            (flush = NoFlush /\ ops = <<>> /\ transactions = {}))

\* C16 witness: the second tick runs after a first tick whose failure was caught
C16_Witness ==
    /\ auto.timer = "running"
    /\ auto.ticks = 2
    /\ auto.last = "caught"

\* the sweep of the schedule's tick is under way
SweepInFlight ==
    \/ flush.phase = "running"
    \/ \E k \in DOMAIN ops : ~Settled(ops[k])

\* C35: the ticks of one schedule never overlap: the timer for the next tick is
\* armed only by a running tick whose queries and sweep have ended, and a tick
\* begins only from the armed timer (or the start of the schedule), so that no
\* tick begins while a sweep of the schedule is in flight
C35_TicksNeverOverlap ==
    /\ []((auto.timer = "armed") => (auto.pc = "idle" /\ ~SweepInFlight))
    /\ [][(auto'.timer = "armed" /\ auto.timer # "armed") =>
            /\ auto.timer = "running"
            /\ auto.pc \in {"hotWallet", "addresses", "flush"}
            /\ auto.pc = "flush" => flush.phase \in {"done", "failed"}
            /\ ~SweepInFlight']_vars
    /\ [][(auto'.ticks # auto.ticks) =>
            /\ auto.timer \in {None, "armed"}
            /\ auto.pc = "idle"
            /\ ~SweepInFlight
            /\ auto'.ticks = auto.ticks + 1]_vars

\* C35 witness: the second tick of a schedule is sweeping, the first having
\* ended with its sweep done
C35_Witness ==
    /\ auto.ticks = 2
    /\ auto.last = "flushed"
    /\ auto.timer = "running"
    /\ auto.pc = "flush"
    /\ flush.phase = "running"

\* C39: whatever hot wallets have been added, a chain has at most one active
\* hot-wallet record, so that the record a tick's query returns for the chain is
\* the only one it could return
C39_OneActiveHotWallet ==
    \A chainType \in ChainType : Cardinality(activeHotWallets(chainType)) <= 1

\* ---------------------------------------------------------- specifications

NoTransfer == [request |-> NoRequest, out |-> None,
               outcome |-> Outcome(None, FALSE, FALSE, 0, FALSE, None, NoTx)]
NoStatusCall == [hash |-> None, result |-> None, returns |-> <<>>, by |-> None]
\* the chains as the custody directory's addresses see them
ChainStates ==
    { [native |-> [a \in ChainAddresses |-> IF a = E0 THEN n ELSE 5000],
       token |-> [a \in ChainAddresses |-> IF a = E0 THEN t ELSE 0],
       gasPrice |-> <<>>,
       down |-> d,
       queryDown |-> {},
       seqno |-> [a \in {T1, T2} |-> 0]] :
      n \in {0, 5000}, t \in {0, 5000}, d \in {{}, {S0}} }

InitDirectory ==
    /\ wallets = {}
    /\ addresses = {}
    /\ walletSeq = 0
    /\ mnemonicSeq = 0
    /\ calls = [c \in CallIds |-> FreeCall]
    /\ returned = NoReturn
    /\ console = {}

InitCustody ==
    /\ adapters = CustodyAdapters
    /\ wallets = CustodyWallets
    /\ addresses = CustodyAddresses
    /\ walletSeq = 2
    /\ mnemonicSeq = 2
    /\ calls = [c \in CallIds |-> FreeCall]
    /\ returned = NoReturn
    /\ console = {}
    /\ clients = [users |-> {}, slots |-> {}]

InitTransfers ==
    /\ transactions = {}
    /\ xfer = NoTransfer
    /\ statusCall = NoStatusCall
    /\ watcher = [queue |-> <<>>]

InitFlush ==
    /\ flush = NoFlush
    /\ ops = <<>>

NoProbe == [fn |-> None]
NoSchedule ==
    [timer |-> None, pc |-> "idle", chain |-> None, ticks |-> 0, last |-> None,
     hotWalletAddress |-> None, hotWallets |-> {}]

\* no request has reached the transfer middleware, no approval is on record
NoGuard ==
    [role |-> None, approvals |-> {}, passed |-> <<>>, n |-> 0,
     last |-> GateOutcome(None, NoRequest, None)]

InitRest ==
    /\ probe = NoProbe
    /\ auto = NoSchedule
    /\ guard = NoGuard

\* the wallet directory: createWallet and generateNewAddress
Init ==
    /\ adapters = StartupAdapters
    /\ InitDirectory
    /\ clients \in ClientLoads
    /\ InitTransfers
    /\ ledger \in ChainStates
    /\ ledger.native[E0] = 5000 /\ ledger.token[E0] = 0 /\ ledger.down = {}
    /\ InitFlush
    /\ InitRest

Next == createWallet \/ generateNewAddress

Spec == Init /\ [][Next]_vars

\* the transfer engine and the status poller over the custody directory
InitTransfer ==
    /\ InitCustody
    /\ InitTransfers
    /\ ledger \in ChainStates
    /\ InitFlush
    /\ InitRest

NextTransfer == TransferService \/ TransactionWatcher

SpecTransfer == InitTransfer /\ [][NextTransfer]_vars

\* the transfer engine with the poller's interval firing again and again
SpecWatcher == InitTransfer /\ [][NextTransfer]_vars /\ WF_vars(TransactionWatcher)

\* the chains as a sweep finds them
FlushChainStates ==
    { [native |-> (E0 :> 1000000) @@ (E1 :> 2000) @@ (S0 :> 2001) @@ (T1 :> 5000)
                  @@ (T2 :> 5000) @@ (Stranger :> 0),
       token |-> (E0 :> 5000) @@ (E1 :> 13000) @@ (S0 :> 0) @@ (T1 :> 0)
                 @@ (T2 :> 0) @@ (Stranger :> 0),
       gasPrice |-> g,
       down |-> d[1],
       queryDown |-> d[2],
       seqno |-> [a \in {T1, T2} |-> 0]] :
      g \in {<<>>, <<0>>, <<100>>}, d \in {<<{}, {}>>, <<{T1}, {E1}>>} }

\* the sweep engine over the custody directory
InitSweep ==
    /\ InitCustody
    /\ InitTransfers
    /\ ledger \in FlushChainStates
    /\ InitFlush
    /\ InitRest

NextFlush == FlushService

SpecFlush == InitSweep /\ [][NextFlush]_vars

\* the adapter registry called from outside
InitRegistry ==
    /\ adapters = StartupAdapters
    /\ InitDirectory
    /\ clients = [users |-> {}, slots |-> {}]
    /\ InitTransfers
    /\ ledger \in { l \in ChainStates : l.native[E0] = 5000 /\ l.token[E0] = 0 /\ l.down = {} }
    /\ InitFlush
    /\ InitRest

NextRegistry == ChainAdapterFactory

SpecRegistry == InitRegistry /\ [][NextRegistry]_vars

\* the rows of table hot_wallets
HotWalletRow(chainType, address, is_active) ==
    [chain |-> chainType, address |-> address, is_active |-> is_active]

HotWalletTables ==
    { {},
      {HotWalletRow(EVM, HotWallet, TRUE), HotWalletRow(TON, <<"hot", TON>>, FALSE)},
      {HotWalletRow(EVM, HotWallet, TRUE), HotWalletRow(TON, <<"hot", TON>>, TRUE)} }

\* the scheduled sweep over the custody directory
InitAutoFlush ==
    /\ InitCustody
    /\ InitTransfers
    /\ ledger \in FlushChainStates
    /\ InitFlush
    /\ probe = NoProbe
    /\ auto \in { [NoSchedule EXCEPT !.hotWallets = t] : t \in HotWalletTables }
    /\ guard = NoGuard

NextAutoFlush == AutoFlush

\* every await of a tick that has begun returns or throws
SpecAutoFlush == InitAutoFlush /\ [][NextAutoFlush]_vars /\ WF_vars(AutoFlushTick)

\* the scheduled sweep with the admin adding hot wallets
NextAdmin == AdminController \/ AutoFlush

SpecAdmin == InitAutoFlush /\ [][NextAdmin]_vars

\* the encryption service called from outside
InitEncryption ==
    /\ adapters = StartupAdapters
    /\ InitDirectory
    /\ clients = [users |-> {}, slots |-> {}]
    /\ InitTransfers
    /\ ledger \in { l \in ChainStates : l.native[E0] = 5000 /\ l.token[E0] = 0 /\ l.down = {} }
    /\ InitFlush
    /\ InitRest

NextEncryption == EncryptionService

SpecEncryption == InitEncryption /\ [][NextEncryption]_vars

\* the adapters' derivation called from outside
InitDerivation == InitEncryption

NextDerivation == Derivation

SpecDerivation == InitDerivation /\ [][NextDerivation]_vars

\* the adapters called from outside, over the chains as a sweep finds them
InitAdapters == InitSweep

NextAdapters == ChainAdapters

SpecAdapters == InitAdapters /\ [][NextAdapters]_vars

\* the chains as the middleware's requests find them: the source address holds
\* more than any amount asked for
GuardChainState ==
    [native |-> [a \in ChainAddresses |-> IF a = E0 THEN 2000000000 ELSE 5000],
     token |-> [a \in ChainAddresses |-> 0],
     gasPrice |-> <<>>,
     down |-> {},
     queryDown |-> {},
     seqno |-> [a \in {T1, T2} |-> 0]]

\* the transfer middleware in front of the transfer engine, for a user, an
\* admin, or a request without user
InitRiskGuard ==
    /\ InitCustody
    /\ InitTransfers
    /\ ledger = GuardChainState
    /\ InitFlush
    /\ probe = NoProbe
    /\ auto = NoSchedule
    /\ guard \in { [NoGuard EXCEPT !.role = r] : r \in {"user", "admin", None} }

NextRiskGuard == RiskGuard

SpecRiskGuard == InitRiskGuard /\ [][NextRiskGuard]_vars

====
